---- MODULE Spec2Model ----
(***************************************************************************)
(* BookGraph: a model of the relationship graph (BookGraph), the max-heap  *)
(* priority queue (MaxHeap) and the recommendation engine                  *)
(* (RecommendationEngine) of the book recommendation server.               *)
(*                                                                         *)
(* Conventions                                                             *)
(*  - a JavaScript array is a TLA+ sequence; array index i is sequence     *)
(*    index i + 1;                                                         *)
(*  - a Map<string, V> is a function whose DOMAIN is the set of keys;      *)
(*  - "T | undefined" is a sequence of length 0 (undefined) or 1.          *)
(***************************************************************************)
EXTENDS Integers, Sequences, FiniteSets, Bags, TLC

\* ------------------------------------------------------------------ bounds

\* Largest absolute edge weight the graph actions let an edge reach.
MaxWeight == 1

\* Identifiers handed to the graph operations.
NodeIds == {"b1", "b2", "b3"}

\* Weights passed to addEdge (the code accepts any number).
EdgeWeights == {-1, 1}

\* relationshipTypes arrays passed to addEdge: arrays over the schema's enum
\* that hold no value twice.
EdgeTypeArrays ==
  { <<"same_genre">>, <<"same_author">> }

\* ------------------------------------------------------------------ helpers

Range(s) == { s[i] : i \in DOMAIN s }

RECURSIVE SumLengths(_, _)
SumLengths(f, keys) ==
  IF keys = {} THEN 0
  ELSE LET k == CHOOSE x \in keys : TRUE
       IN  Len(f[k]) + SumLengths(f, keys \ {k})

\* ------------------------------------------------------------------ BookGraph

\* [...new Set(arr)]: the values of arr in order of first occurrence.
RECURSIVE SetSpread(_)
SetSpread(arr) ==
  IF arr = <<>> THEN <<>>
  ELSE LET front == SetSpread(SubSeq(arr, 1, Len(arr) - 1))
           last  == arr[Len(arr)]
       IN  IF last \in Range(front) THEN front ELSE Append(front, last)

\* edges.findIndex(e => e.targetBookId === id), as a sequence index; 0 for -1.
FindEdgeIndex(edges, id) ==
  LET hits == { i \in DOMAIN edges : edges[i].targetBookId = id }
  IN  IF hits = {} THEN 0
      ELSE CHOOSE i \in hits : \A j \in hits : i <= j

\* Faulty variant: the list is set to [] without asking whether the node is
\* there.
AddNodeResets(adj, bookId) ==
  [ nodeId \in DOMAIN adj \cup {bookId} |->
      IF nodeId = bookId THEN <<>> ELSE adj[nodeId] ]

AddNodeTo(adj, bookId) ==
  IF bookId \in DOMAIN adj THEN adj ELSE adj @@ (bookId :> <<>>)

\* Faulty variant: the node is deleted, the entries that target it are left behind.
RemoveNodeNoStrip(adj, bookId) ==
  [ nodeId \in DOMAIN adj \ {bookId} |-> adj[nodeId] ]

\* Faulty variant: the entries that target the node are stripped, its key is kept.
RemoveNodeKeepsKey(adj, bookId) ==
  [ nodeId \in DOMAIN adj |->
      IF nodeId = bookId THEN adj[nodeId]
      ELSE SelectSeq(adj[nodeId], LAMBDA e : e.targetBookId # bookId) ]

RemoveNodeFrom(adj, bookId) ==
  [ nodeId \in DOMAIN adj \ {bookId} |->
      SelectSeq(adj[nodeId], LAMBDA e : e.targetBookId # bookId) ]

\* Faulty variant: an existing entry has its weight overwritten instead of summed.
OverwriteOrPushEdge(edges, otherId, weight, relationshipTypes) ==
  LET idx == FindEdgeIndex(edges, otherId)
  IN  IF idx > 0
      THEN [ edges EXCEPT ![idx] =
               [ targetBookId      |-> otherId,
                 weight            |-> weight,
                 relationshipTypes |->
                   SetSpread(edges[idx].relationshipTypes \o relationshipTypes) ] ]
      ELSE Append(edges, [ targetBookId      |-> otherId,
                           weight            |-> weight,
                           relationshipTypes |-> relationshipTypes ])

\* One half of addEdge: update the entry of `edges` that targets `otherId`,
\* or push a new one.
MergeOrPushEdge(edges, otherId, weight, relationshipTypes) ==
  LET idx == FindEdgeIndex(edges, otherId)
  IN  IF idx > 0
      THEN [ edges EXCEPT ![idx] =
               [ targetBookId      |-> otherId,
                 weight            |-> edges[idx].weight + weight,
                 relationshipTypes |->
                   SetSpread(edges[idx].relationshipTypes \o relationshipTypes) ] ]
      ELSE Append(edges, [ targetBookId      |-> otherId,
                           weight            |-> weight,
                           relationshipTypes |-> relationshipTypes ])

\* Faulty variant: the reverse entry is pushed without looking for an existing one.
AddEdgeReversePushed(adj, sourceId, targetId, weight, relationshipTypes) ==
  LET withNodes == AddNodeTo(AddNodeTo(adj, sourceId), targetId)
      forward   == [ withNodes EXCEPT ![sourceId] =
                       MergeOrPushEdge(withNodes[sourceId], targetId,
                                       weight, relationshipTypes) ]
  IN  [ forward EXCEPT ![targetId] =
          Append(forward[targetId], [ targetBookId      |-> sourceId,
                                      weight            |-> weight,
                                      relationshipTypes |-> relationshipTypes ]) ]

AddEdgeTo(adj, sourceId, targetId, weight, relationshipTypes) ==
  LET withNodes == AddNodeTo(AddNodeTo(adj, sourceId), targetId)
      forward   == [ withNodes EXCEPT ![sourceId] =
                       MergeOrPushEdge(withNodes[sourceId], targetId,
                                       weight, relationshipTypes) ]
  IN  [ forward EXCEPT ![targetId] =
          MergeOrPushEdge(forward[targetId], sourceId, weight, relationshipTypes) ]

GetNeighbors(adj, bookId) == IF bookId \in DOMAIN adj THEN adj[bookId] ELSE <<>>

HasNode(adj, bookId) == bookId \in DOMAIN adj

GetNodeCount(adj) == Cardinality(DOMAIN adj)

\* The sum getEdgeCount accumulates before it divides by two.
DirectedEntryCount(adj) == SumLengths(adj, DOMAIN adj)

\* Faulty variant: the sum of the list lengths is returned as it is.
GetEdgeCountUnhalved(adj) == [ num |-> DirectedEntryCount(adj), den |-> 1 ]

\* getEdgeCount() as the exact fraction num/den it returns.
GetEdgeCount(adj) == [ num |-> DirectedEntryCount(adj), den |-> 2 ]

\* ------------------------------------------------------------------ MaxHeap
\* Indices are the code's (0-based); heap[i] of the code is h[i + 1].

getParentIndex(index) == (index - 1) \div 2

getLeftChildIndex(index) == 2 * index + 1

getRightChildIndex(index) == 2 * index + 2

swap(h, i, j) == [ h EXCEPT ![i + 1] = h[j + 1], ![j + 1] = h[i + 1] ]

\* Faulty variant: one swap with the parent, then stop.
bubbleUpOnce(h, index) ==
  IF index > 0
  THEN LET parentIndex == getParentIndex(index)
       IN  IF h[parentIndex + 1].score >= h[index + 1].score
           THEN h
           ELSE swap(h, parentIndex, index)
  ELSE h

RECURSIVE bubbleUp(_, _)
bubbleUp(h, index) ==
  IF index > 0
  THEN LET parentIndex == getParentIndex(index)
       IN  IF h[parentIndex + 1].score >= h[index + 1].score
           THEN h
           ELSE bubbleUp(swap(h, parentIndex, index), parentIndex)
  ELSE h

\* Faulty variant: the right child is never looked at.
RECURSIVE bubbleDownLeftOnly(_, _)
bubbleDownLeftOnly(h, index) ==
  LET length    == Len(h)
      leftIndex == getLeftChildIndex(index)
      largest   == IF leftIndex < length /\ h[leftIndex + 1].score > h[index + 1].score
                   THEN leftIndex ELSE index
  IN  IF largest = index THEN h
      ELSE bubbleDownLeftOnly(swap(h, index, largest), largest)

RECURSIVE bubbleDown(_, _)
bubbleDown(h, index) ==
  LET length     == Len(h)
      leftIndex  == getLeftChildIndex(index)
      rightIndex == getRightChildIndex(index)
      afterLeft  == IF leftIndex < length /\ h[leftIndex + 1].score > h[index + 1].score
                    THEN leftIndex ELSE index
      largest    == IF rightIndex < length
                       /\ h[rightIndex + 1].score > h[afterLeft + 1].score
                    THEN rightIndex ELSE afterLeft
  IN  IF largest = index THEN h
      ELSE bubbleDown(swap(h, index, largest), largest)

HeapPush(h, score, data) ==
  bubbleUp(Append(h, [ score |-> score, data |-> data ]), Len(h))

\* Faulty variant: the last entry of the array is handed out instead of the first.
HeapPopLast(h) ==
  IF Len(h) = 0 THEN [ heap |-> h, value |-> <<>> ]
  ELSE [ heap |-> SubSeq(h, 1, Len(h) - 1), value |-> << h[Len(h)] >> ]

\* Faulty variant: no special case for one entry, so heap[0] = heap.pop() puts the
\* only entry back.
HeapPopPutsBack(h) ==
  IF Len(h) = 0 THEN [ heap |-> h, value |-> <<>> ]
  ELSE LET max      == h[1]
           lastItem == h[Len(h)]
           shorter  == SubSeq(h, 1, Len(h) - 1)
           moved    == IF shorter = <<>> THEN << lastItem >>
                       ELSE [ shorter EXCEPT ![1] = lastItem ]
       IN  [ heap |-> bubbleDown(moved, 0), value |-> << max >> ]

\* pop(): the heap it leaves and the value it returns.
HeapPop(h) ==
  IF Len(h) = 0 THEN [ heap |-> h, value |-> <<>> ]
  ELSE IF Len(h) = 1 THEN [ heap |-> <<>>, value |-> << h[1] >> ]
  ELSE LET max      == h[1]
           lastItem == h[Len(h)]
           moved    == [ SubSeq(h, 1, Len(h) - 1) EXCEPT ![1] = lastItem ]
       IN  [ heap |-> bubbleDown(moved, 0), value |-> << max >> ]

HeapPeek(h) == IF Len(h) = 0 THEN <<>> ELSE << h[1] >>

Min(a, b) == IF a <= b THEN a ELSE b

RECURSIVE ExtractLoop(_, _, _, _)
ExtractLoop(h, result, i, count) ==
  IF i < count
  THEN LET popped == HeapPop(h)
       IN  ExtractLoop(popped.heap, result \o popped.value, i + 1, count)
  ELSE [ heap |-> h, value |-> result ]

\* Faulty variant: the first entries of the array are handed out as they lie,
\* without popping.
HeapExtractFirstK(h, k) ==
  LET count == IF Min(k, Len(h)) < 0 THEN 0 ELSE Min(k, Len(h))
  IN  [ heap |-> SubSeq(h, count + 1, Len(h)), value |-> SubSeq(h, 1, count) ]

\* extractTopK(k): the heap it leaves and the array it returns.
HeapExtractTopK(h, k) == ExtractLoop(h, <<>>, 0, Min(k, Len(h)))

\* ------------------------------------------------------------------ RecommendationEngine
\* A score that went through the depth penalty may be a multiple of 1/2, so
\* every score handed to the heap and returned by getRecommendations is kept
\* as a count of halves: the model's score field holds 2 x the code's score.

SAME_GENRE_SCORE == 3

SAME_AUTHOR_SCORE == 5

KEYWORD_MATCH_SCORE == 1

BORROWED_TOGETHER_SCORE == 2

MAX_POSSIBLE_SCORE == 25

\* 0.5 as a fraction.
DEPTH_PENALTY_FACTOR == [ num |-> 1, den |-> 2 ]

\* Faulty variant: the traversal goes one level deeper.
MaxDepthPlusOne == 2 + 1

MAX_DEPTH == 2

\* String.prototype.toLowerCase on the strings the model uses.
ToLowerCase(str) ==
  CASE str = "Tolkien" -> "tolkien"
    [] str = "Magic"   -> "magic"
    [] str = "Quest"   -> "quest"
    [] str = "Orwell"  -> "orwell"
    [] str = "Basho"   -> "basho"
    [] str = "F. Scott Fitzgerald" -> "f. scott fitzgerald"
    [] str = "George Orwell"       -> "george orwell"
    [] str = "Aldous Huxley"       -> "aldous huxley"
    [] OTHER           -> str

\* if (!reasons.includes(x)) reasons.push(x)
PushIfAbsent(reasons, x) ==
  IF x \in Range(reasons) THEN reasons ELSE Append(reasons, x)

RECURSIVE PushAllIfAbsent(_, _)
PushAllIfAbsent(reasons, types) ==
  IF types = <<>> THEN reasons
  ELSE PushAllIfAbsent(PushIfAbsent(reasons, Head(types)), Tail(types))

\* Faulty variant: a keyword that `keywords` holds twice is counted once.
KeywordMatchesDistinct(otherKeywords, keywords) ==
  LET lowered == { ToLowerCase(otherKeywords[i]) : i \in DOMAIN otherKeywords }
  IN  Cardinality({ ToLowerCase(keywords[i]) : i \in DOMAIN keywords } \cap lowered)

\* The loop that counts the keywords of `keywords` found in the lower-cased
\* set of the other book's keywords.
KeywordMatches(otherKeywords, keywords) ==
  LET lowered == { ToLowerCase(otherKeywords[i]) : i \in DOMAIN otherKeywords }
  IN  Cardinality({ i \in DOMAIN keywords : ToLowerCase(keywords[i]) \in lowered })

calculateScore(sourceBook, targetBook, edgeWeight, relationshipTypes) ==
  LET sameGenre  == sourceBook.genre = targetBook.genre
      sameAuthor == ToLowerCase(sourceBook.author) = ToLowerCase(targetBook.author)
      keywordMatches == KeywordMatches(sourceBook.keywords, targetBook.keywords)
      score1   == edgeWeight + (IF sameGenre THEN SAME_GENRE_SCORE ELSE 0)
      reasons1 == IF sameGenre THEN PushIfAbsent(<<>>, "same_genre") ELSE <<>>
      score2   == score1 + (IF sameAuthor THEN SAME_AUTHOR_SCORE ELSE 0)
      reasons2 == IF sameAuthor THEN PushIfAbsent(reasons1, "same_author") ELSE reasons1
      score3   == score2 + (IF keywordMatches > 0
                            THEN keywordMatches * KEYWORD_MATCH_SCORE ELSE 0)
      reasons3 == IF keywordMatches > 0
                  THEN PushIfAbsent(reasons2, "similar_keywords") ELSE reasons2
  IN  [ score |-> score3, reasons |-> PushAllIfAbsent(reasons3, relationshipTypes) ]

\* Faulty variant: a target is pushed on the queue without being added to
\* visited.
RECURSIVE EnqueueUnmarked(_, _, _, _)
EnqueueUnmarked(edges, queue, visited, depth) ==
  IF edges = <<>> THEN [ queue |-> queue, visited |-> visited ]
  ELSE LET id == Head(edges).targetBookId
       IN  IF id \in visited
           THEN EnqueueUnmarked(Tail(edges), queue, visited, depth)
           ELSE EnqueueUnmarked(Tail(edges),
                                Append(queue, [ id |-> id, depth |-> depth ]),
                                visited, depth)

\* for (const edge of edges) if (!visited.has(edge.targetBookId)) { push; add }
\* The queue and the visited set after the loop.
RECURSIVE EnqueueUnvisited(_, _, _, _)
EnqueueUnvisited(edges, queue, visited, depth) ==
  IF edges = <<>> THEN [ queue |-> queue, visited |-> visited ]
  ELSE LET id == Head(edges).targetBookId
       IN  IF id \in visited
           THEN EnqueueUnvisited(Tail(edges), queue, visited, depth)
           ELSE EnqueueUnvisited(Tail(edges),
                                 Append(queue, [ id |-> id, depth |-> depth ]),
                                 visited \cup {id}, depth)

\* Faulty variant: a candidate without a direct edge is given weight 0.
EdgeWeightUsedOrZero(sourceEdges, currentId) ==
  LET idx == FindEdgeIndex(sourceEdges, currentId)
  IN  IF idx = 0 THEN 0
      ELSE IF sourceEdges[idx].weight = 0 THEN 1
      ELSE sourceEdges[idx].weight

\* directEdge?.weight || 1
EdgeWeightUsed(sourceEdges, currentId) ==
  LET idx == FindEdgeIndex(sourceEdges, currentId)
  IN  IF idx = 0 THEN 1
      ELSE IF sourceEdges[idx].weight = 0 THEN 1
      ELSE sourceEdges[idx].weight

\* directEdge?.relationshipTypes || []
EdgeTypesUsed(sourceEdges, currentId) ==
  LET idx == FindEdgeIndex(sourceEdges, currentId)
  IN  IF idx = 0 THEN <<>> ELSE sourceEdges[idx].relationshipTypes

\* Faulty variant: the penalty is applied whatever the depth.
FinalScoreAlwaysPenalized(score, depth) == score * DEPTH_PENALTY_FACTOR.num

\* depth === 1 ? score : score * DEPTH_PENALTY_FACTOR, in halves.
FinalScore(score, depth) ==
  IF depth = 1 THEN score * DEPTH_PENALTY_FACTOR.den
  ELSE score * DEPTH_PENALTY_FACTOR.num

\* The while loop of getRecommendations: the heap it leaves.
RECURSIVE BfsLoop(_, _, _, _, _, _)
BfsLoop(queue, visited, h, adj, bookMap, sourceBookId) ==
  IF queue = <<>> THEN h
  ELSE LET currentId == Head(queue).id
           depth     == Head(queue).depth
           rest      == Tail(queue)
       IN  IF currentId \notin DOMAIN bookMap
           THEN BfsLoop(rest, visited, h, adj, bookMap, sourceBookId)
           ELSE LET sourceEdges == GetNeighbors(adj, sourceBookId)
                    currentBook == bookMap[currentId]
                    scored == calculateScore(bookMap[sourceBookId], currentBook,
                                             EdgeWeightUsed(sourceEdges, currentId),
                                             EdgeTypesUsed(sourceEdges, currentId))
                    pushedHeap == HeapPush(h, FinalScore(scored.score, depth),
                                           [ book    |-> currentBook,
                                             reasons |-> scored.reasons,
                                             depth   |-> depth ])
                    next == IF depth < MAX_DEPTH
                            THEN EnqueueUnvisited(GetNeighbors(adj, currentId),
                                                  rest, visited, depth + 1)
                            ELSE [ queue |-> rest, visited |-> visited ]
                IN  BfsLoop(next.queue, next.visited, pushedHeap,
                            adj, bookMap, sourceBookId)

\* The heap getRecommendations has filled when the traversal ends.
ScoredCandidates(adj, bookMap, sourceBookId) ==
  LET seeded == EnqueueUnvisited(GetNeighbors(adj, sourceBookId),
                                 <<>>, {sourceBookId}, 1)
  IN  BfsLoop(seeded.queue, seeded.visited, <<>>, adj, bookMap, sourceBookId)

\* What the traversal's entries become in the array returned.
RecommendationsOfItems(topItems) ==
  [ i \in DOMAIN topItems |->
      [ book              |-> topItems[i].data.book,
        score             |-> topItems[i].score,
        relationshipTypes |-> topItems[i].data.reasons,
        depth             |-> topItems[i].data.depth ] ]

\* Faulty variant: the guard asks the graph for the source's node instead of
\* the book map for its book, and a source without a book is scored as a book
\* without attributes.
GetRecommendationsByNode(adj, bookMap, sourceBookId, limit) ==
  IF sourceBookId \notin DOMAIN adj THEN <<>>
  ELSE LET blank == [ id |-> sourceBookId, genre |-> "", author |-> "",
                      keywords |-> <<>> ]
           map   == IF sourceBookId \in DOMAIN bookMap THEN bookMap
                    ELSE bookMap @@ (sourceBookId :> blank)
       IN  RecommendationsOfItems(
             HeapExtractTopK(ScoredCandidates(adj, map, sourceBookId), limit).value)

GetRecommendationsOf(adj, bookMap, sourceBookId, limit) ==
  IF sourceBookId \notin DOMAIN bookMap THEN <<>>
  ELSE RecommendationsOfItems(
         HeapExtractTopK(ScoredCandidates(adj, bookMap, sourceBookId), limit).value)

\* Faulty variant: the bonus is added whenever Math.random() > 0.7 holds,
\* without asking for weight > 0.
ConnectionOfBonusUnguarded(newBook, existingBook, random) ==
  LET sameGenre  == newBook.genre = existingBook.genre
      sameAuthor == ToLowerCase(newBook.author) = ToLowerCase(existingBook.author)
      keywordMatches == KeywordMatches(newBook.keywords, existingBook.keywords)
      weight == (IF sameGenre THEN SAME_GENRE_SCORE ELSE 0)
                  + (IF sameAuthor THEN SAME_AUTHOR_SCORE ELSE 0)
                  + keywordMatches * KEYWORD_MATCH_SCORE
      types  == (IF sameGenre THEN << "same_genre" >> ELSE <<>>)
                  \o (IF sameAuthor THEN << "same_author" >> ELSE <<>>)
                  \o (IF keywordMatches > 0 THEN << "similar_keywords" >> ELSE <<>>)
  IN  [ weight            |-> IF random THEN weight + BORROWED_TOGETHER_SCORE
                              ELSE weight,
        relationshipTypes |-> IF random THEN Append(types, "borrowed_together")
                              ELSE types ]

\* Faulty variant: the authors are compared as stored, without toLowerCase().
ConnectionOfAuthorAsStored(newBook, existingBook, random) ==
  LET sameGenre  == newBook.genre = existingBook.genre
      sameAuthor == newBook.author = existingBook.author
      keywordMatches == KeywordMatches(newBook.keywords, existingBook.keywords)
      weight == (IF sameGenre THEN SAME_GENRE_SCORE ELSE 0)
                  + (IF sameAuthor THEN SAME_AUTHOR_SCORE ELSE 0)
                  + keywordMatches * KEYWORD_MATCH_SCORE
      types  == (IF sameGenre THEN << "same_genre" >> ELSE <<>>)
                  \o (IF sameAuthor THEN << "same_author" >> ELSE <<>>)
                  \o (IF keywordMatches > 0 THEN << "similar_keywords" >> ELSE <<>>)
      bonus  == weight > 0 /\ random
  IN  [ weight            |-> IF bonus THEN weight + BORROWED_TOGETHER_SCORE
                              ELSE weight,
        relationshipTypes |-> IF bonus THEN Append(types, "borrowed_together")
                              ELSE types ]

\* connectBook's loop body for one existing book: the weight and the
\* relationshipTypes it arrives at; `random` tells whether Math.random() > 0.7
\* holds when it is drawn.
ConnectionOf(newBook, existingBook, random) ==
  LET sameGenre  == newBook.genre = existingBook.genre
      sameAuthor == ToLowerCase(newBook.author) = ToLowerCase(existingBook.author)
      keywordMatches == KeywordMatches(newBook.keywords, existingBook.keywords)
      weight1 == IF sameGenre THEN SAME_GENRE_SCORE ELSE 0
      types1  == IF sameGenre THEN << "same_genre" >> ELSE <<>>
      weight2 == weight1 + (IF sameAuthor THEN SAME_AUTHOR_SCORE ELSE 0)
      types2  == IF sameAuthor THEN Append(types1, "same_author") ELSE types1
      weight3 == weight2 + (IF keywordMatches > 0
                            THEN keywordMatches * KEYWORD_MATCH_SCORE ELSE 0)
      types3  == IF keywordMatches > 0
                 THEN Append(types2, "similar_keywords") ELSE types2
      bonus   == weight3 > 0 /\ random
  IN  [ weight            |-> IF bonus THEN weight3 + BORROWED_TOGETHER_SCORE
                              ELSE weight3,
        relationshipTypes |-> IF bonus THEN Append(types3, "borrowed_together")
                              ELSE types3 ]

\* Faulty variant: an edge is created only when the weight exceeds that of a
\* single keyword match.
RECURSIVE ConnectLoopAboveOne(_, _, _, _)
ConnectLoopAboveOne(adj, newBook, existingBooks, high) ==
  IF existingBooks = <<>> THEN adj
  ELSE LET existingBook == Head(existingBooks)
           c == ConnectionOf(newBook, existingBook, existingBook.id \in high)
       IN  IF existingBook.id = newBook.id
           THEN ConnectLoopAboveOne(adj, newBook, Tail(existingBooks), high)
           ELSE ConnectLoopAboveOne(
                  IF c.weight > KEYWORD_MATCH_SCORE
                  THEN AddEdgeTo(adj, newBook.id, existingBook.id,
                                 c.weight, c.relationshipTypes)
                  ELSE adj,
                  newBook, Tail(existingBooks), high)

\* The for loop of connectBook over existingBooks; `high` holds the ids of the
\* existing books for which Math.random() > 0.7 holds.
RECURSIVE ConnectLoop(_, _, _, _)
ConnectLoop(adj, newBook, existingBooks, high) ==
  IF existingBooks = <<>> THEN adj
  ELSE LET existingBook == Head(existingBooks)
           c == ConnectionOf(newBook, existingBook, existingBook.id \in high)
       IN  IF existingBook.id = newBook.id
           THEN ConnectLoop(adj, newBook, Tail(existingBooks), high)
           ELSE ConnectLoop(
                  IF c.weight > 0
                  THEN AddEdgeTo(adj, newBook.id, existingBook.id,
                                 c.weight, c.relationshipTypes)
                  ELSE adj,
                  newBook, Tail(existingBooks), high)

\* Faulty variant: the new book gets no node of its own; it gets one only
\* through its first edge.
ConnectBookWithoutNode(adj, newBook, existingBooks, high) ==
  ConnectLoop(adj, newBook, existingBooks, high)

ConnectBook(adj, newBook, existingBooks, high) ==
  ConnectLoop(AddNodeTo(adj, newBook.id), newBook, existingBooks, high)

\* ------------------------------------------------------------------ MemStorage

\* The identifiers randomUUID() hands out, in the order it hands them out.
\* The code compares identifiers for equality only, and an identifier is
\* never handed out twice.
UuidPool == << "u1", "u2", "u3", "u4", "u5", "u6" >>

\* const book = { ...insertBook, id }
WithId(insertBook, id) ==
  [ id |-> id, genre |-> insertBook.genre, author |-> insertBook.author,
    keywords |-> insertBook.keywords ]

\* Array.from(this.books.values()): a Map iterates in insertion order, which
\* is the order the identifiers were handed out in.
BookValues(bookMap) ==
  LET live == SelectSeq(UuidPool, LAMBDA id : id \in DOMAIN bookMap)
  IN  [ i \in DOMAIN live |-> bookMap[live[i]] ]

\* this.books.set(id, book)
MapSet(bookMap, id, book) ==
  [ b \in DOMAIN bookMap \cup {id} |-> IF b = id THEN book ELSE bookMap[b] ]

\* this.books.delete(id)
MapDelete(bookMap, id) == [ b \in DOMAIN bookMap \ {id} |-> bookMap[b] ]

\* Faulty variant: the call hands control back once the book is in the map;
\* the node and the edges are not there yet.
CreateBookNotWired(bookMap, adj, insertBook, id, high) ==
  LET book == WithId(insertBook, id)
  IN  [ books  |-> MapSet(bookMap, id, book),
        graph  |-> adj,
        result |-> book ]

\* createBook: the book map, the graph and the book it returns.
CreateBookIn(bookMap, adj, insertBook, id, high) ==
  LET book          == WithId(insertBook, id)
      withBook      == MapSet(bookMap, id, book)
      existingBooks == SelectSeq(BookValues(withBook), LAMBDA b : b.id # id)
  IN  [ books  |-> withBook,
        graph  |-> ConnectBook(adj, book, existingBooks, high),
        result |-> book ]

\* Faulty variant: the node is removed from the graph, the book stays in the
\* map.
DeleteBookKeepsBook(bookMap, adj, id) ==
  IF id \notin DOMAIN bookMap
  THEN [ books |-> bookMap, graph |-> adj, result |-> FALSE ]
  ELSE [ books  |-> bookMap,
         graph  |-> RemoveNodeFrom(adj, id),
         result |-> TRUE ]

\* Faulty variant: the book is removed from the map, the graph is left alone.
DeleteBookKeepsNode(bookMap, adj, id) ==
  IF id \notin DOMAIN bookMap
  THEN [ books |-> bookMap, graph |-> adj, result |-> FALSE ]
  ELSE [ books  |-> MapDelete(bookMap, id),
         graph  |-> adj,
         result |-> TRUE ]

\* deleteBook: the book map, the graph and the boolean it returns.
DeleteBookIn(bookMap, adj, id) ==
  IF id \notin DOMAIN bookMap
  THEN [ books |-> bookMap, graph |-> adj, result |-> FALSE ]
  ELSE [ books  |-> MapDelete(bookMap, id),
         graph  |-> RemoveNodeFrom(adj, id),
         result |-> TRUE ]

\* The first loop of initializeBooks: every seed book gets an identifier, is
\* put into the map and gets a node.
RECURSIVE SeedBooks(_, _, _)
SeedBooks(seed, bookMap, adj) ==
  IF seed = <<>> THEN [ books |-> bookMap, graph |-> adj ]
  ELSE LET id == UuidPool[Cardinality(DOMAIN bookMap) + 1]
       IN  SeedBooks(Tail(seed), MapSet(bookMap, id, WithId(Head(seed), id)),
                     AddNodeTo(adj, id))

\* The second loop of initializeBooks: connectBook(book, otherBooks) for every
\* created book; high[id] holds the ids for which Math.random() > 0.7 holds
\* during the call for book id.
RECURSIVE ConnectSeeds(_, _, _, _)
ConnectSeeds(todo, createdBooks, adj, high) ==
  IF todo = <<>> THEN adj
  ELSE LET book       == Head(todo)
           otherBooks == SelectSeq(createdBooks, LAMBDA b : b.id # book.id)
       IN  ConnectSeeds(Tail(todo), createdBooks,
                        ConnectBook(adj, book, otherBooks, high[book.id]), high)

\* initializeBooks on a list of seed books.
InitializeBooks(seed, high) ==
  LET created      == SeedBooks(seed, << >>, << >>)
      createdBooks == BookValues(created.books)
  IN  [ books |-> created.books,
        graph |-> ConnectSeeds(createdBooks, createdBooks, created.graph, high) ]

\* ------------------------------------------------------------------ routes

\* The fallback of `parseInt(req.query.limit as string) || 5`.
ROUTE_DEFAULT_LIMIT == 5

\* parseInt on the parameter strings the model uses; << >> stands for NaN
\* ("" is an absent parameter).
ParseInt(str) ==
  CASE str = "0" -> << 0 >>
    [] str = "1" -> << 1 >>
    [] OTHER     -> << >>

\* parseInt(req.query.limit as string) || 5: NaN and 0 are falsy.
LimitOf(param) ==
  LET n == ParseInt(param)
  IN  IF n = << >> THEN ROUTE_DEFAULT_LIMIT
      ELSE IF n[1] = 0 THEN ROUTE_DEFAULT_LIMIT
      ELSE n[1]

\* insertBookSchema.parse(req.body) succeeds: every required string and the
\* keywords array hold at least one element.
ValidInsertBook(body) ==
  /\ body.genre # ""
  /\ body.author # ""
  /\ Len(body.keywords) >= 1

\* What a handler sends: res.status(status).json(body) or .json({ error }).
Response(status, error, body) ==
  [ status |-> status, error |-> error, body |-> body ]

\* ------------------------------------------------------------------ state

VARIABLES
  adjacencyList,  \* BookGraph.adjacencyList
  lastOp,         \* the name of the operation that produced the state
  passed,         \* history: per unordered pair, what addEdge was passed since
                  \* the pair's endpoints were last created
  heap,           \* MaxHeap.heap
  returned,       \* what the last MaxHeap call returned
  pushed,         \* history: the bag of entries pushed since the heap was empty
                  \* (kept while run is "pushing" or "drained", else empty)
  run,            \* history: "pushing" while only push (and peek) was called
                  \* since the heap was empty, "drained" right after
                  \* extractTopK(n) took those n entries, "mixed" otherwise
  books,          \* RecommendationEngine.bookMap (MemStorage.books)
  query,          \* the arguments of the getRecommendations or connectBook
                  \* call, when it is the last operation (NoQuery otherwise)
  recs,           \* what that call returned
  issued,         \* the number of identifiers randomUUID() has handed out
  deleted,        \* history: the ids deleteBook has returned true for
  reply,          \* what the last createBook or deleteBook call or the last
                  \* read of the graph returned; in the server, the response
                  \* the last handler step sent
  inflight,       \* the requests being handled, each with the await it is at
  bfsQueue,       \* getRecommendations' local `queue` while a call is running
  bfsVisited,     \* its local `visited`
  enqueued        \* history: the ids the running call has pushed on its queue,
                  \* in the order it pushed them

graphVars == << adjacencyList, passed >>

heapVars == << heap, returned, pushed, run >>

engineVars == << books, query, recs >>

storeVars == << issued, deleted, reply, inflight >>

walkVars == << bfsQueue, bfsVisited, enqueued >>

vars == << adjacencyList, lastOp, passed, heap, returned, pushed, run,
           books, query, recs, issued, deleted, reply, inflight,
           bfsQueue, bfsVisited, enqueued >>

HeapIdle ==
  /\ heap = <<>>
  /\ returned = <<>>
  /\ pushed = EmptyBag
  /\ run = "pushing"

GraphIdle ==
  /\ adjacencyList = << >>
  /\ passed = << >>

NoQuery == [ sourceBookId |-> "", limit |-> 0 ]

EngineIdle ==
  /\ books = << >>
  /\ query = NoQuery
  /\ recs = <<>>

StoreIdle ==
  /\ issued = 0
  /\ deleted = {}
  /\ reply = <<>>
  /\ inflight = << >>

\* No getRecommendations call is running.
WalkIdle ==
  /\ bfsQueue = << >>
  /\ bfsVisited = {}
  /\ enqueued = << >>

Pair(a, b) == {a, b}

\* Weight of the entry of a's list that targets b (0 when there is none).
WeightOf(adj, a, b) ==
  LET idx == FindEdgeIndex(GetNeighbors(adj, a), b)
  IN  IF idx > 0 THEN adj[a][idx].weight ELSE 0

InitGraph ==
  /\ GraphIdle
  /\ HeapIdle
  /\ WalkIdle
  /\ EngineIdle
  /\ StoreIdle
  /\ lastOp = "new"

addNode(bookId) ==
  /\ adjacencyList' = AddNodeTo(adjacencyList, bookId)
  /\ lastOp' = "addNode"
  /\ reply' = << >>
  /\ UNCHANGED << issued, deleted, inflight >>
  /\ query' = NoQuery
  /\ recs' = <<>>
  /\ UNCHANGED << passed, heapVars, walkVars, books >>

removeNode(bookId) ==
  /\ adjacencyList' = RemoveNodeFrom(adjacencyList, bookId)
  /\ lastOp' = "removeNode"
  /\ reply' = << >>
  /\ UNCHANGED << issued, deleted, inflight >>
  /\ passed' = [ p \in { q \in DOMAIN passed : bookId \notin q } |-> passed[p] ]
  /\ query' = NoQuery
  /\ recs' = <<>>
  /\ UNCHANGED << heapVars, walkVars, books >>

addEdge(sourceId, targetId, weight, relationshipTypes) ==
  /\ WeightOf(adjacencyList, sourceId, targetId) + weight \in -MaxWeight .. MaxWeight
  /\ adjacencyList' =
       AddEdgeTo(adjacencyList, sourceId, targetId, weight, relationshipTypes)
  /\ lastOp' = "addEdge"
  /\ reply' = << >>
  /\ UNCHANGED << issued, deleted, inflight >>
  /\ passed' =
       LET p   == Pair(sourceId, targetId)
           old == IF p \in DOMAIN passed THEN passed[p]
                  ELSE [ weight |-> 0, types |-> {} ]
           new == [ weight |-> old.weight + weight,
                    types  |-> old.types \cup Range(relationshipTypes) ]
       IN  [ q \in DOMAIN passed \cup {p} |-> IF q = p THEN new ELSE passed[q] ]
  /\ query' = NoQuery
  /\ recs' = <<>>
  /\ UNCHANGED << heapVars, walkVars, books >>

NextGraph ==
  \/ \E id \in NodeIds : addNode(id)
  \/ \E id \in NodeIds : removeNode(id)
  \/ \E s \in NodeIds : \E t \in NodeIds \ {s} :
       \E w \in EdgeWeights, ty \in EdgeTypeArrays : addEdge(s, t, w, ty)

SpecGraph == InitGraph /\ [][NextGraph]_vars

\* ------------------------------------------------------------------ BookGraph reads
\* The graph with its read accessors, on edges of one type.

ApiWeights == { -1, 1 }

ApiTypeArrays == { << "same_genre" >> }

InitGraphApi == InitGraph

getNeighbors(bookId) ==
  /\ lastOp' = "getNeighbors"
  /\ reply' = << GetNeighbors(adjacencyList, bookId) >>
  /\ UNCHANGED << graphVars, heapVars, walkVars, engineVars, issued, deleted, inflight >>

hasNode(bookId) ==
  /\ lastOp' = "hasNode"
  /\ reply' = << HasNode(adjacencyList, bookId) >>
  /\ UNCHANGED << graphVars, heapVars, walkVars, engineVars, issued, deleted, inflight >>

NextGraphApi ==
  \/ \E id \in NodeIds : addNode(id)
  \/ \E id \in NodeIds : removeNode(id)
  \/ \E s \in NodeIds : \E t \in NodeIds \ {s} :
       \E w \in ApiWeights, ty \in ApiTypeArrays : addEdge(s, t, w, ty)
  \/ \E id \in NodeIds : getNeighbors(id)
  \/ \E id \in NodeIds : hasNode(id)

SpecGraphApi == InitGraphApi /\ [][NextGraphApi]_vars

\* ------------------------------------------------------------------ BookGraph with self-edges
\* addEdge called with any two identifiers, the same one twice included.

SelfIds == { "b1", "b2" }

InitSelf == InitGraph

NextSelf ==
  \/ \E id \in SelfIds : addNode(id)
  \/ \E id \in SelfIds : removeNode(id)
  \/ \E s \in SelfIds, t \in SelfIds :
       \E w \in ApiWeights, ty \in ApiTypeArrays : addEdge(s, t, w, ty)

SpecSelf == InitSelf /\ [][NextSelf]_vars

\* ------------------------------------------------------------------ MaxHeap actions

\* Largest number of entries the heap actions let the heap hold.
MaxHeapSize == 5

\* Scores and payloads passed to push (the code accepts any number).
HeapScores == {-1, 0, 1}

HeapPayloads == {"x", "y"}

\* Counts passed to extractTopK.
ExtractCounts == -1 .. MaxHeapSize + 1

BagOfSeq(s) ==
  [ x \in Range(s) |-> Cardinality({ i \in DOMAIN s : s[i] = x }) ]

InitHeap ==
  /\ GraphIdle
  /\ HeapIdle
  /\ WalkIdle
  /\ EngineIdle
  /\ StoreIdle
  /\ lastOp = "new"

push(score, data) ==
  /\ Len(heap) < MaxHeapSize
  /\ heap' = HeapPush(heap, score, data)
  /\ returned' = <<>>
  /\ lastOp' = "push"
  /\ UNCHANGED storeVars
  /\ UNCHANGED << graphVars, engineVars, walkVars >>
  /\ LET item == [ score |-> score, data |-> data ]
     IN  IF heap = <<>>
         THEN pushed' = SetToBag({item}) /\ run' = "pushing"
         ELSE IF run = "pushing"
              THEN pushed' = pushed (+) SetToBag({item}) /\ run' = "pushing"
              ELSE pushed' = EmptyBag /\ run' = "mixed"

pop ==
  /\ heap' = HeapPop(heap).heap
  /\ returned' = HeapPop(heap).value
  /\ lastOp' = "pop"
  /\ UNCHANGED storeVars
  /\ UNCHANGED << graphVars, engineVars, walkVars >>
  /\ run' = "mixed"
  /\ pushed' = EmptyBag

peek ==
  /\ returned' = HeapPeek(heap)
  /\ lastOp' = "peek"
  /\ UNCHANGED storeVars
  /\ UNCHANGED << graphVars, engineVars, walkVars >>
  /\ UNCHANGED heap
  /\ IF run = "pushing"
     THEN UNCHANGED << pushed, run >>
     ELSE run' = "mixed" /\ pushed' = EmptyBag

extractTopK(k) ==
  /\ heap' = HeapExtractTopK(heap, k).heap
  /\ returned' = HeapExtractTopK(heap, k).value
  /\ lastOp' = "extractTopK"
  /\ UNCHANGED storeVars
  /\ UNCHANGED << graphVars, engineVars, walkVars >>
  /\ IF run = "pushing" /\ k = BagCardinality(pushed) /\ k > 0
     THEN run' = "drained" /\ UNCHANGED pushed
     ELSE run' = "mixed" /\ pushed' = EmptyBag

clear ==
  /\ heap' = <<>>
  /\ returned' = <<>>
  /\ lastOp' = "clear"
  /\ UNCHANGED storeVars
  /\ UNCHANGED << graphVars, engineVars, walkVars >>
  /\ pushed' = EmptyBag
  /\ run' = "pushing"

NextHeap ==
  \/ \E score \in HeapScores, data \in HeapPayloads : push(score, data)
  \/ pop
  \/ peek
  \/ \E k \in ExtractCounts : extractTopK(k)
  \/ clear

SpecHeap == InitHeap /\ [][NextHeap]_vars

\* ------------------------------------------------------------------ engine actions
\* The engine shares the graph and the book map with its owner, which
\* changes both between two queries.

\* Largest number of undirected edges the engine's graph is given.
MaxEdges == 3

\* Identifiers of the books the engine is run on.
BookIds == {"b1", "b2", "b3", "b4"}

\* The book stored under an identifier (the fields the engine reads).
BookOf(id) ==
  CASE id = "b1" -> [ id |-> id, genre |-> "Fantasy", author |-> "Tolkien",
                      keywords |-> << "magic", "quest" >> ]
    [] id = "b2" -> [ id |-> id, genre |-> "Fantasy", author |-> "tolkien",
                      keywords |-> << "Magic" >> ]
    [] id = "b3" -> [ id |-> id, genre |-> "SciFi", author |-> "Orwell",
                      keywords |-> << "quest", "Quest" >> ]
    [] OTHER     -> [ id |-> id, genre |-> "Poetry", author |-> "Basho",
                      keywords |-> << "frog" >> ]

\* Identifiers whose book the owner deletes and sets again.
DeletableIds == {"b2", "b4"}

\* Weights and relationshipTypes arrays of the edges the engine's graph is
\* given.
EngineWeights == { -1, 2 }

EngineTypeArrays == { << "same_genre", "borrowed_together" >> }

\* limit: number = 5
DEFAULT_LIMIT == 5

\* Limits passed to getRecommendations.
QueryLimits == { 1, DEFAULT_LIMIT }

\* new RecommendationEngine(graph, bookMap), on an empty graph and a book map
\* that holds every book.
InitEngine ==
  /\ GraphIdle
  /\ HeapIdle
  /\ WalkIdle
  /\ books = [ id \in BookIds |-> BookOf(id) ]
  /\ query = NoQuery
  /\ recs = <<>>
  /\ StoreIdle
  /\ lastOp = "new"

\* bookMap.set(id, book), by the owner of the map.
booksSet(id) ==
  /\ id \notin DOMAIN books
  /\ books' = [ b \in DOMAIN books \cup {id} |-> IF b = id THEN BookOf(id) ELSE books[b] ]
  /\ lastOp' = "mutation"
  /\ UNCHANGED storeVars
  /\ query' = NoQuery
  /\ recs' = <<>>
  /\ UNCHANGED << graphVars, heapVars, walkVars >>

\* bookMap.delete(id), by the owner of the map; one identifier at a time
\* lacks its book.
booksDelete(id) ==
  /\ DOMAIN books = BookIds
  /\ books' = [ b \in DOMAIN books \ {id} |-> books[b] ]
  /\ lastOp' = "mutation"
  /\ UNCHANGED storeVars
  /\ query' = NoQuery
  /\ recs' = <<>>
  /\ UNCHANGED << graphVars, heapVars, walkVars >>

\* graph.addEdge(sourceId, targetId, weight, types) between two books that no
\* edge joins yet.
graphAddEdge(sourceId, targetId, weight, relationshipTypes) ==
  /\ FindEdgeIndex(GetNeighbors(adjacencyList, sourceId), targetId) = 0
  /\ DirectedEntryCount(adjacencyList) < 2 * MaxEdges
  /\ adjacencyList' =
       AddEdgeTo(adjacencyList, sourceId, targetId, weight, relationshipTypes)
  /\ lastOp' = "mutation"
  /\ UNCHANGED storeVars
  /\ query' = NoQuery
  /\ recs' = <<>>
  /\ UNCHANGED << passed, heapVars, walkVars, books >>

getRecommendations(sourceBookId, limit) ==
  /\ recs' = GetRecommendationsOf(adjacencyList, books, sourceBookId, limit)
  /\ query' = [ sourceBookId |-> sourceBookId, limit |-> limit ]
  /\ lastOp' = "getRecommendations"
  /\ UNCHANGED storeVars
  /\ UNCHANGED << graphVars, heapVars, walkVars, books >>

NextEngine ==
  \/ \E id \in DeletableIds : booksSet(id)
  \/ \E id \in DeletableIds : booksDelete(id)
  \/ \E s \in BookIds : \E t \in BookIds \ {s} :
       \E w \in EngineWeights, ty \in EngineTypeArrays : graphAddEdge(s, t, w, ty)
  \/ \E id \in BookIds, limit \in QueryLimits : getRecommendations(id, limit)

SpecEngine == InitEngine /\ [][NextEngine]_vars

\* ------------------------------------------------------------------ engine on merged edges
\* The engine on a graph whose owner calls addEdge on the same pair again:
\* addEdge adds the weights, so an edge's weight may be 0 or negative.

\* Identifiers of the books the merged edges join.
MergeIds == { "b1", "b2", "b3" }

\* Weights and relationshipTypes arrays passed to addEdge.
MergeWeights == { -1, 1 }

MergeTypeArrays == { << "borrowed_together" >> }

InitMerged == InitEngine

\* graph.addEdge(sourceId, targetId, weight, types), on any pair, joined or
\* not.
graphMergeEdge(sourceId, targetId, weight, relationshipTypes) ==
  /\ WeightOf(adjacencyList, sourceId, targetId) + weight \in -MaxWeight .. MaxWeight
  /\ adjacencyList' =
       AddEdgeTo(adjacencyList, sourceId, targetId, weight, relationshipTypes)
  /\ lastOp' = "mutation"
  /\ UNCHANGED storeVars
  /\ query' = NoQuery
  /\ recs' = <<>>
  /\ UNCHANGED << passed, heapVars, walkVars, books >>

NextMerged ==
  \/ \E s \in MergeIds : \E t \in MergeIds \ {s} :
       \E w \in MergeWeights, ty \in MergeTypeArrays : graphMergeEdge(s, t, w, ty)
  \/ \E id \in MergeIds : getRecommendations(id, DEFAULT_LIMIT)

SpecMerged == InitMerged /\ [][NextMerged]_vars

\* ------------------------------------------------------------------ getRecommendations step by step
\* One getRecommendations call at a time, as the steps it takes: the lines up
\* to its while loop, one step per iteration of the loop, and its return. The
\* call is synchronous, so the owner changes the graph between calls only.

WalkWeights == { 1 }

WalkTypeArrays == { << "same_genre" >> }

\* A call has started and has not returned.
Walking == lastOp \in { "start", "iterate" }

\* The book map holds every book, or every book but one.
InitWalk ==
  /\ GraphIdle
  /\ HeapIdle
  /\ WalkIdle
  /\ \E missing \in SUBSET { "b4" } :
       books = [ id \in BookIds \ missing |-> BookOf(id) ]
  /\ query = NoQuery
  /\ recs = <<>>
  /\ StoreIdle
  /\ lastOp = "new"

\* From the call to the while loop; a source without a book returns at once.
getRecommendationsStart(sourceBookId, limit) ==
  /\ ~ Walking
  /\ query' = [ sourceBookId |-> sourceBookId, limit |-> limit ]
  /\ recs' = <<>>
  /\ IF sourceBookId \notin DOMAIN books
     THEN /\ lastOp' = "getRecommendations"
          /\ UNCHANGED walkVars
     ELSE LET seeded == EnqueueUnvisited(GetNeighbors(adjacencyList, sourceBookId),
                                         <<>>, {sourceBookId}, 1)
          IN  /\ lastOp' = "start"
              /\ bfsQueue' = seeded.queue
              /\ bfsVisited' = seeded.visited
              /\ enqueued' = [ i \in DOMAIN seeded.queue |-> seeded.queue[i].id ]
  /\ UNCHANGED << graphVars, heapVars, books, storeVars >>

\* One iteration of the while loop.
getRecommendationsIterate ==
  /\ Walking
  /\ bfsQueue # <<>>
  /\ lastOp' = "iterate"
  /\ LET currentId == Head(bfsQueue).id
         depth     == Head(bfsQueue).depth
         rest      == Tail(bfsQueue)
     IN  IF currentId \notin DOMAIN books
         THEN /\ bfsQueue' = rest
              /\ UNCHANGED << heap, bfsVisited, enqueued >>
         ELSE LET sourceEdges == GetNeighbors(adjacencyList, query.sourceBookId)
                  currentBook == books[currentId]
                  scored == calculateScore(books[query.sourceBookId], currentBook,
                                           EdgeWeightUsed(sourceEdges, currentId),
                                           EdgeTypesUsed(sourceEdges, currentId))
                  next == IF depth < MAX_DEPTH
                          THEN EnqueueUnvisited(GetNeighbors(adjacencyList, currentId),
                                                rest, bfsVisited, depth + 1)
                          ELSE [ queue |-> rest, visited |-> bfsVisited ]
              IN  /\ heap' = HeapPush(heap, FinalScore(scored.score, depth),
                                      [ book    |-> currentBook,
                                        reasons |-> scored.reasons,
                                        depth   |-> depth ])
                  /\ bfsQueue' = next.queue
                  /\ bfsVisited' = next.visited
                  /\ enqueued' =
                       enqueued \o [ i \in 1 .. Len(next.queue) - Len(rest) |->
                                       next.queue[Len(rest) + i].id ]
  /\ UNCHANGED << graphVars, returned, pushed, run, engineVars, storeVars >>

\* extractTopK(limit) and the return; the call's locals are gone.
getRecommendationsReturn ==
  /\ Walking
  /\ bfsQueue = <<>>
  /\ lastOp' = "getRecommendations"
  /\ recs' = RecommendationsOfItems(HeapExtractTopK(heap, query.limit).value)
  /\ heap' = <<>>
  /\ bfsVisited' = {}
  /\ enqueued' = << >>
  /\ UNCHANGED << graphVars, returned, pushed, run, books, query, bfsQueue,
                  storeVars >>

\* graph.addEdge by the owner, between two calls.
ownerAddEdge(sourceId, targetId, weight, relationshipTypes) ==
  /\ ~ Walking
  /\ graphAddEdge(sourceId, targetId, weight, relationshipTypes)

NextWalk ==
  \/ \E s \in BookIds : \E t \in BookIds \ {s} :
       \E w \in WalkWeights, ty \in WalkTypeArrays : ownerAddEdge(s, t, w, ty)
  \/ \E id \in BookIds : getRecommendationsStart(id, DEFAULT_LIMIT)
  \/ getRecommendationsIterate
  \/ getRecommendationsReturn

SpecWalk == InitWalk /\ [][NextWalk]_vars

\* The call is never suspended: a call that has started takes its next step.
SpecWalkFair ==
  SpecWalk /\ WF_vars(getRecommendationsIterate \/ getRecommendationsReturn)

\* ------------------------------------------------------------------ calculateScore alone
\* calculateScore applied to two books, an edge weight and an array of edge
\* types; query holds the arguments and reply the value returned.

\* A book whose genre differs from b1's by case only and whose keywords
\* repeat one of b1's.
ScoreBooks ==
  { BookOf(id) : id \in BookIds }
    \cup { [ id |-> "b5", genre |-> "fantasy", author |-> "Orwell",
             keywords |-> << "Quest", "frog", "quest", "quest" >> ] }

ScoreWeights == { -1, 0, 2 }

ScoreTypeArrays ==
  { << >>,
    << "same_genre" >>,
    << "borrowed_together", "same_author" >>,
    << "similar_keywords", "borrowed_together", "similar_keywords" >> }

InitScore == InitGraph

calculateScoreOf(sourceBook, targetBook, edgeWeight, relationshipTypes) ==
  /\ lastOp' = "calculateScore"
  /\ query' = [ sourceBook |-> sourceBook, targetBook |-> targetBook,
                edgeWeight |-> edgeWeight, relationshipTypes |-> relationshipTypes ]
  /\ reply' = << calculateScore(sourceBook, targetBook, edgeWeight, relationshipTypes) >>
  /\ UNCHANGED << graphVars, heapVars, walkVars, books, recs, issued, deleted, inflight >>

NextScore ==
  \E sourceBook \in ScoreBooks, targetBook \in ScoreBooks :
    \E edgeWeight \in ScoreWeights, relationshipTypes \in ScoreTypeArrays :
      calculateScoreOf(sourceBook, targetBook, edgeWeight, relationshipTypes)

SpecScore == InitScore /\ [][NextScore]_vars

\* ------------------------------------------------------------------ connectBook actions
\* connectBook called on the engine directly, with any list of existing books.

\* Largest weight the connectBook action lets an edge reach.
MaxWiring == 11

\* Identifiers of the books connectBook is called on.
ConnectIds == { "b1", "b2", "b3" }

\* Lists passed as existingBooks: up to three books, none twice, the new book
\* possibly among them.
ExistingLists ==
  { ids \in UNION { [ 1 .. n -> ConnectIds ] : n \in 0 .. 3 } :
      \A i \in DOMAIN ids : \A j \in DOMAIN ids : i # j => ids[i] # ids[j] }

InitConnect ==
  /\ GraphIdle
  /\ HeapIdle
  /\ WalkIdle
  /\ books = [ id \in BookIds |-> BookOf(id) ]
  /\ query = NoQuery
  /\ recs = <<>>
  /\ StoreIdle
  /\ lastOp = "new"

\* high: the ids of the existing books for which Math.random() > 0.7 holds.
connectBook(newBookId, existingIds) ==
  \E high \in SUBSET Range(existingIds) :
    \E connected \in
         { ConnectBook(adjacencyList, books[newBookId],
                       [ i \in DOMAIN existingIds |-> books[existingIds[i]] ], high) } :
      /\ \A a \in DOMAIN connected : \A i \in DOMAIN connected[a] :
           connected[a][i].weight <= MaxWiring
      /\ adjacencyList' = connected
      /\ query' = [ newBookId |-> newBookId, existingIds |-> existingIds ]
      /\ lastOp' = "connectBook"
      /\ UNCHANGED << passed, heapVars, walkVars, books, recs, storeVars >>

NextConnect ==
  \E newBookId \in ConnectIds, existingIds \in ExistingLists :
    connectBook(newBookId, existingIds)

SpecConnect == InitConnect /\ [][NextConnect]_vars

\* ------------------------------------------------------------------ MemStorage actions

\* Largest number of identifiers the store hands out (seed books included).
MaxBooks == 4

\* The fields of a book createBook is passed (an InsertBook).
InsertBookOf(b) ==
  [ genre |-> BookOf(b).genre, author |-> BookOf(b).author,
    keywords |-> BookOf(b).keywords ]

\* The seed list the store is constructed on.
INITIAL_BOOKS == << InsertBookOf("b1"), InsertBookOf("b3") >>

\* Books passed to createBook.
InsertBooks == { InsertBookOf(b) : b \in { "b2", "b3", "b4" } }

\* Identifiers passed to deleteBook and getRecommendations: those handed out
\* and those not handed out yet.
StoreIds == { UuidPool[i] : i \in 1 .. MaxBooks }

SeedIds == { UuidPool[i] : i \in 1 .. Len(INITIAL_BOOKS) }

\* new MemStorage(): the constructor runs initializeBooks, which has no await
\* and therefore runs to its end before the constructor returns.
InitStore ==
  /\ \E high \in [ SeedIds -> SUBSET SeedIds ] :
       LET st == InitializeBooks(INITIAL_BOOKS, high)
       IN  /\ books = st.books
           /\ adjacencyList = st.graph
  /\ passed = << >>
  /\ HeapIdle
  /\ WalkIdle
  /\ query = NoQuery
  /\ recs = <<>>
  /\ issued = Len(INITIAL_BOOKS)
  /\ deleted = {}
  /\ reply = <<>>
  /\ inflight = << >>
  /\ lastOp = "new"

\* high: the ids of the existing books for which Math.random() > 0.7 holds.
createBook(insertBook) ==
  /\ issued < MaxBooks
  /\ \E high \in SUBSET DOMAIN books :
       LET st == CreateBookIn(books, adjacencyList, insertBook,
                              UuidPool[issued + 1], high)
       IN  /\ books' = st.books
           /\ adjacencyList' = st.graph
           /\ reply' = << st.result >>
  /\ issued' = issued + 1
  /\ lastOp' = "createBook"
  /\ query' = NoQuery
  /\ recs' = <<>>
  /\ UNCHANGED << passed, heapVars, walkVars, deleted, inflight >>

deleteBook(id) ==
  /\ LET st == DeleteBookIn(books, adjacencyList, id)
     IN  /\ books' = st.books
         /\ adjacencyList' = st.graph
         /\ reply' = << st.result >>
         /\ deleted' = IF st.result THEN deleted \cup {id} ELSE deleted
  /\ lastOp' = "deleteBook"
  /\ query' = NoQuery
  /\ recs' = <<>>
  /\ UNCHANGED << passed, heapVars, walkVars, issued, inflight >>

\* Faulty variant: the lookup of the source's edges creates a node for an id
\* that has none.
storageGetRecommendationsAddsNode(bookId, limit) ==
  /\ recs' = GetRecommendationsOf(adjacencyList, books, bookId, limit)
  /\ query' = [ sourceBookId |-> bookId, limit |-> limit ]
  /\ reply' = <<>>
  /\ lastOp' = "getRecommendations"
  /\ adjacencyList' = AddNodeTo(adjacencyList, bookId)
  /\ UNCHANGED << passed, heapVars, walkVars, books, issued, deleted, inflight >>

\* MemStorage.getRecommendations: the engine's call on the store's graph and
\* map.
storageGetRecommendations(bookId, limit) ==
  /\ recs' = GetRecommendationsOf(adjacencyList, books, bookId, limit)
  /\ query' = [ sourceBookId |-> bookId, limit |-> limit ]
  /\ reply' = <<>>
  /\ lastOp' = "getRecommendations"
  /\ UNCHANGED << graphVars, heapVars, walkVars, books, issued, deleted, inflight >>

NextStore ==
  \/ \E insertBook \in InsertBooks : createBook(insertBook)
  \/ \E id \in StoreIds : deleteBook(id)
  \/ \E id \in StoreIds, limit \in QueryLimits : storageGetRecommendations(id, limit)

SpecStore == InitStore /\ [][NextStore]_vars

\* ------------------------------------------------------------------ MemStorage on five-keyword books
\* The store seeded with books of the seed list's shape (five keywords each)
\* that share nothing, so that every edge comes from createBook.

\* "The Great Gatsby" of the seed list, with the fields the engine reads.
Gatsby ==
  [ genre |-> "Fiction", author |-> "F. Scott Fitzgerald",
    keywords |-> << "american dream", "wealth", "love", "tragedy", "1920s" >> ]

\* "1984" of the seed list.
NineteenEightyFour ==
  [ genre |-> "Science Fiction", author |-> "George Orwell",
    keywords |-> << "dystopia", "surveillance", "totalitarianism", "freedom",
                    "control" >> ]

\* "Brave New World" of the seed list.
BraveNewWorld ==
  [ genre |-> "Science Fiction", author |-> "Aldous Huxley",
    keywords |-> << "dystopia", "technology", "control", "freedom", "society" >> ]

ShelfSeed == << Gatsby, NineteenEightyFour >>

\* Books passed to createBook: a second copy of a seed book and a book
\* related to the other one.
ShelfInsertBooks == { Gatsby, BraveNewWorld }

InitShelf ==
  /\ \E high \in [ { UuidPool[i] : i \in DOMAIN ShelfSeed }
                      -> SUBSET { UuidPool[i] : i \in DOMAIN ShelfSeed } ] :
       LET st == InitializeBooks(ShelfSeed, high)
       IN  /\ books = st.books
           /\ adjacencyList = st.graph
  /\ passed = << >>
  /\ HeapIdle
  /\ WalkIdle
  /\ query = NoQuery
  /\ recs = <<>>
  /\ issued = Len(ShelfSeed)
  /\ deleted = {}
  /\ reply = <<>>
  /\ inflight = << >>
  /\ lastOp = "new"

NextShelf ==
  \/ \E insertBook \in ShelfInsertBooks : createBook(insertBook)
  \/ \E id \in StoreIds : deleteBook(id)
  \/ \E id \in StoreIds : storageGetRecommendations(id, DEFAULT_LIMIT)

SpecShelf == InitShelf /\ [][NextShelf]_vars

\* ------------------------------------------------------------------ server actions
\* The handlers of routes.ts on the store. A handler runs from one await to
\* the next as one step; the call it awaits has run when it suspends, since
\* no method of the store awaits anything.

\* Largest number of books the server is posted.
MaxPosted == 1

\* The requests that can be in flight together.
Requests == { "r1", "r2" }

\* Identifiers in request paths.
ServerIds == { UuidPool[i] : i \in 1 .. Len(INITIAL_BOOKS) + MaxPosted }

\* Values of the limit query parameter.
LimitParams == { "", "1" }

\* Bodies posted: a book and a body without keywords.
PostBodies ==
  { InsertBookOf("b2"),
    [ genre |-> "Fantasy", author |-> "Tolkien", keywords |-> << >> ] }

InitServer == InitStore

Suspended(r, route, pc, id, limit, known, value) ==
  [ q \in DOMAIN inflight \cup {r} |->
      IF q = r
      THEN [ route |-> route, pc |-> pc, id |-> id, limit |-> limit,
             known |-> known, value |-> value ]
      ELSE inflight[q] ]

Finished(r) == [ q \in DOMAIN inflight \ {r} |-> inflight[q] ]

\* What the response is recorded with: the route, the id of the path and
\* whether the id had a book when the handler looked it up (history).
Sent(r, response) ==
  << [ route |-> inflight[r].route, id |-> inflight[r].id,
       known |-> inflight[r].known, response |-> response ] >>

At(r, route, pc) ==
  /\ r \in DOMAIN inflight
  /\ inflight[r].route = route
  /\ inflight[r].pc = pc

\* GET /api/books/:id/recommendations, up to `await storage.getBook(id)`.
recommendationsRoute(r, id, limit) ==
  /\ r \notin DOMAIN inflight
  /\ inflight' = Suspended(r, "recommendations", "getBook", id, limit,
                           id \in DOMAIN books,
                           IF id \in DOMAIN books THEN << books[id] >> ELSE << >>)
  /\ reply' = << >>
  /\ lastOp' = "recommendationsRoute"
  /\ UNCHANGED << graphVars, heapVars, walkVars, engineVars, issued, deleted >>

\* Faulty variant: the handler does not look at what getBook returned.
recommendationsGotBookUnchecked(r) ==
  /\ At(r, "recommendations", "getBook")
  /\ inflight' = Suspended(r, "recommendations", "getRecommendations",
                           inflight[r].id, inflight[r].limit, inflight[r].known,
                           GetRecommendationsOf(adjacencyList, books, inflight[r].id,
                                                LimitOf(inflight[r].limit)))
  /\ reply' = << >>
  /\ lastOp' = "recommendationsGotBook"
  /\ UNCHANGED << graphVars, heapVars, walkVars, engineVars, issued, deleted >>

\* ... from the first await to the 404 or to
\* `await storage.getRecommendations(id, limit)`.
recommendationsGotBook(r) ==
  /\ At(r, "recommendations", "getBook")
  /\ IF inflight[r].value = << >>
     THEN /\ inflight' = Finished(r)
          /\ reply' = Sent(r, Response(404, "Book not found", << >>))
     ELSE /\ inflight' =
               Suspended(r, "recommendations", "getRecommendations",
                         inflight[r].id, inflight[r].limit, inflight[r].known,
                         GetRecommendationsOf(adjacencyList, books, inflight[r].id,
                                              LimitOf(inflight[r].limit)))
          /\ reply' = << >>
  /\ lastOp' = "recommendationsGotBook"
  /\ UNCHANGED << graphVars, heapVars, walkVars, engineVars, issued, deleted >>

\* ... from the second await to res.json(recommendations).
recommendationsRespond(r) ==
  /\ At(r, "recommendations", "getRecommendations")
  /\ inflight' = Finished(r)
  /\ reply' = Sent(r, Response(200, "", inflight[r].value))
  /\ lastOp' = "recommendationsRespond"
  /\ UNCHANGED << graphVars, heapVars, walkVars, engineVars, issued, deleted >>

\* DELETE /api/books/:id, up to `await storage.deleteBook(id)`.
deleteRoute(r, id) ==
  /\ r \notin DOMAIN inflight
  /\ LET st == DeleteBookIn(books, adjacencyList, id)
     IN  /\ books' = st.books
         /\ adjacencyList' = st.graph
         /\ deleted' = IF st.result THEN deleted \cup {id} ELSE deleted
         /\ inflight' = Suspended(r, "delete", "deleteBook", id, "",
                                  id \in DOMAIN books, << st.result >>)
  /\ reply' = << >>
  /\ lastOp' = "deleteRoute"
  /\ UNCHANGED << passed, heapVars, walkVars, query, recs, issued >>

\* ... from the await to the 404 or the 204.
deleteRespond(r) ==
  /\ At(r, "delete", "deleteBook")
  /\ inflight' = Finished(r)
  /\ reply' = IF inflight[r].value[1]
              THEN Sent(r, Response(204, "", << >>))
              ELSE Sent(r, Response(404, "Book not found", << >>))
  /\ lastOp' = "deleteRespond"
  /\ UNCHANGED << graphVars, heapVars, walkVars, engineVars, issued, deleted >>

\* POST /api/books, up to the 400 of a body the schema rejects or to
\* `await storage.createBook(validatedData)`; high as in createBook.
createRoute(r, body) ==
  /\ r \notin DOMAIN inflight
  /\ IF ~ValidInsertBook(body)
     THEN /\ reply' = << [ route |-> "create", id |-> "", known |-> FALSE,
                           response |-> Response(400, "Validation error", << >>) ] >>
          /\ UNCHANGED << books, adjacencyList, issued, inflight >>
     ELSE /\ issued < Len(INITIAL_BOOKS) + MaxPosted
          /\ \E high \in SUBSET DOMAIN books :
               LET st == CreateBookIn(books, adjacencyList, body,
                                      UuidPool[issued + 1], high)
               IN  /\ books' = st.books
                   /\ adjacencyList' = st.graph
                   /\ inflight' = Suspended(r, "create", "createBook",
                                            UuidPool[issued + 1], "", FALSE,
                                            << st.result >>)
          /\ issued' = issued + 1
          /\ reply' = << >>
  /\ lastOp' = "createRoute"
  /\ UNCHANGED << passed, heapVars, walkVars, query, recs, deleted >>

\* ... from the await to res.status(201).json(book).
createRespond(r) ==
  /\ At(r, "create", "createBook")
  /\ inflight' = Finished(r)
  /\ reply' = Sent(r, Response(201, "", inflight[r].value))
  /\ lastOp' = "createRespond"
  /\ UNCHANGED << graphVars, heapVars, walkVars, engineVars, issued, deleted >>

NextServer ==
  \/ \E r \in Requests, id \in ServerIds, limit \in LimitParams :
       recommendationsRoute(r, id, limit)
  \/ \E r \in Requests : recommendationsGotBook(r)
  \/ \E r \in Requests : recommendationsRespond(r)
  \/ \E r \in Requests, id \in ServerIds : deleteRoute(r, id)
  \/ \E r \in Requests : deleteRespond(r)
  \/ \E r \in Requests, body \in PostBodies : createRoute(r, body)
  \/ \E r \in Requests : createRespond(r)

SpecServer == InitServer /\ [][NextServer]_vars

\* ------------------------------------------------------------------ graph claims

Nodes == DOMAIN adjacencyList

\* The entries of bookId's list that target otherId.
EntriesTo(adj, bookId, otherId) ==
  SelectSeq(GetNeighbors(adj, bookId), LAMBDA e : e.targetBookId = otherId)

Mirror(e, bookId) == [ e EXCEPT !.targetBookId = bookId ]

\* C1: the adjacency structure is symmetric: a's list holds an entry that
\* targets b with weight w and types T iff b's list holds an entry that
\* targets a with the same weight and the same types.
GraphSymmetric ==
  \A a \in Nodes : \A i \in DOMAIN adjacencyList[a] :
    LET e == adjacencyList[a][i]
    IN  /\ e.targetBookId \in Nodes
        /\ Mirror(e, a) \in Range(adjacencyList[e.targetBookId])

WitnessSymmetricMerged ==
  /\ lastOp = "addEdge"
  /\ \E a \in Nodes : \E i \in DOMAIN adjacencyList[a] :
       /\ Len(adjacencyList[a][i].relationshipTypes) = 2
       /\ adjacencyList[a][i].weight = 0
  /\ DirectedEntryCount(adjacencyList) = 6

\* C2: each of the two lists of a pair that addEdge was called on holds exactly
\* one entry for the other endpoint; its weight is the sum of the weights
\* passed for the pair, its types the union of the types passed, none twice.
EdgeMergesPerPair ==
  \A p \in DOMAIN passed : \A a \in p : \A b \in p \ {a} :
    LET es == EntriesTo(adjacencyList, a, b)
    IN  /\ Len(es) = 1
        /\ es[1].weight = passed[p].weight
        /\ Range(es[1].relationshipTypes) = passed[p].types
        /\ Len(es[1].relationshipTypes) = Cardinality(passed[p].types)

WitnessMergedTwice ==
  /\ lastOp = "addEdge"
  /\ \E p \in DOMAIN passed :
       /\ passed[p].types = {"same_genre", "same_author"}
       /\ passed[p].weight = 0
  /\ Cardinality(DOMAIN passed) = 3

\* What removeNode(bookId) promises of a step.
RemoveNodePost(bookId) ==
  /\ bookId \notin DOMAIN adjacencyList'
  /\ DOMAIN adjacencyList' = DOMAIN adjacencyList \ {bookId}
  /\ \A n \in DOMAIN adjacencyList' :
       /\ EntriesTo(adjacencyList', n, bookId) = <<>>
       /\ \A m \in NodeIds \ {bookId} :
            EntriesTo(adjacencyList', n, m) = EntriesTo(adjacencyList, n, m)
  /\ GetEdgeCount(adjacencyList).den = GetEdgeCount(adjacencyList').den
  /\ GetEdgeCount(adjacencyList).num - GetEdgeCount(adjacencyList').num
       = GetEdgeCount(adjacencyList).den * Len(GetNeighbors(adjacencyList, bookId))

NoDanglingEdge ==
  \A a \in Nodes : \A i \in DOMAIN adjacencyList[a] :
    adjacencyList[a][i].targetBookId \in Nodes

WitnessRemovedThenNoDangling ==
  /\ lastOp = "removeNode"
  /\ Cardinality(Nodes) = 2
  /\ DirectedEntryCount(adjacencyList) = 0
  /\ passed = << >>

\* ------------------------------------------------------------------ heap claims

NonIncreasing(items) ==
  \A i \in 1 .. Len(items) - 1 : items[i].score >= items[i + 1].score

\* C5: n push calls on an empty heap, then extractTopK(n): the n entries come
\* back in non-increasing score order, as the multiset that was pushed, and
\* the heap is left empty.
ExtractTopKSortsAll ==
  run = "drained" =>
    /\ lastOp = "extractTopK"
    /\ heap = <<>>
    /\ Len(returned) = BagCardinality(pushed)
    /\ NonIncreasing(returned)
    /\ BagOfSeq(returned) = pushed

WitnessDrainedWithTies ==
  /\ run = "drained"
  /\ Len(returned) = MaxHeapSize
  /\ \E i \in DOMAIN returned : \E j \in DOMAIN returned :
       i # j /\ returned[i].score = returned[j].score
  /\ { -1, 0 } \subseteq { returned[i].score : i \in DOMAIN returned }

\* C6: after every push and every pop the array is a max-heap: for every
\* index i > 0, heap[floor((i-1)/2)].score >= heap[i].score.
HeapProperty ==
  \A i \in 1 .. Len(heap) - 1 : heap[((i - 1) \div 2) + 1].score >= heap[i + 1].score

WitnessHeapAfterPop ==
  /\ lastOp = "pop"
  /\ Len(heap) = MaxHeapSize - 1
  /\ heap[2].score < heap[3].score
  /\ heap[4].score < heap[2].score

MaxScore(h) == CHOOSE m \in { h[i].score : i \in DOMAIN h } :
                 \A i \in DOMAIN h : m >= h[i].score

\* C7: on a non-empty heap pop() returns an entry whose score is >= every
\* score held, removes exactly that entry and keeps the others; peek()
\* returns an entry with that maximal score and leaves the heap as it was.
PopTakesTheMax ==
  [][ heap # <<>> =>
        /\ lastOp' = "pop" =>
             /\ Len(returned') = 1
             /\ returned'[1].score = MaxScore(heap)
             /\ Len(heap') = Len(heap) - 1
             /\ BagOfSeq(heap') (+) SetToBag({ returned'[1] }) = BagOfSeq(heap)
        /\ lastOp' = "peek" =>
             /\ Len(returned') = 1
             /\ returned'[1] \in Range(heap)
             /\ returned'[1].score = MaxScore(heap)
             /\ heap' = heap ]_vars

WitnessPoppedOneOfTied ==
  /\ lastOp = "pop"
  /\ Len(returned) = 1
  /\ Len(heap) = MaxHeapSize - 1
  /\ heap[1].score = returned[1].score
  /\ heap[Len(heap)].score < returned[1].score

\* C8: on an empty heap pop() and peek() return undefined, extractTopK(k)
\* returns an empty array for every k, and the heap stays empty and usable:
\* a push followed by a pop hands back the pushed entry.
EmptyHeapIsTotal ==
  [][ heap = <<>> /\ lastOp' \in { "pop", "peek", "extractTopK" } =>
        /\ returned' = <<>>
        /\ heap' = <<>>
        /\ \A score \in HeapScores, data \in HeapPayloads :
             HeapPop(HeapPush(heap', score, data))
               = [ heap  |-> <<>>,
                   value |-> << [ score |-> score, data |-> data ] >> ] ]_vars

WitnessPopOnEmpty ==
  /\ lastOp = "pop"
  /\ heap = <<>>
  /\ returned = <<>>
  /\ run = "mixed"

\* ------------------------------------------------------------------ engine claims

Queried == lastOp = "getRecommendations"

RecommendedIds == { recs[i].book.id : i \in DOMAIN recs }

\* C9: every entry getRecommendations returns has depth 1 or 2 and its book
\* is never the source, also when the graph has cycles back to the source.
RecommendationsWithinTwoHops ==
  \A i \in DOMAIN recs :
    /\ recs[i].depth \in { 1, 2 }
    /\ recs[i].book.id # query.sourceBookId

\* The source heads a path of three edges whose far end has a book, and the
\* list is cut by no limit.
WitnessThreeHopChain ==
  /\ Queried
  /\ query.limit = DEFAULT_LIMIT
  /\ DirectedEntryCount(adjacencyList) = 2 * MaxEdges
  /\ DOMAIN books = BookIds
  /\ Len(recs) = 2
  /\ \E i \in DOMAIN recs : recs[i].depth = 2
  /\ \E far \in BookIds \ (RecommendedIds \cup { query.sourceBookId }) :
       \E i \in DOMAIN recs :
         /\ recs[i].depth = 2
         /\ FindEdgeIndex(GetNeighbors(adjacencyList, far), recs[i].book.id) > 0

\* The base score of the claim: the edge weight used plus the genre, author
\* and keyword bonuses.
BaseScore(sourceBook, targetBook) ==
  EdgeWeightUsed(GetNeighbors(adjacencyList, sourceBook.id), targetBook.id)
    + (IF sourceBook.genre = targetBook.genre THEN SAME_GENRE_SCORE ELSE 0)
    + (IF ToLowerCase(sourceBook.author) = ToLowerCase(targetBook.author)
       THEN SAME_AUTHOR_SCORE ELSE 0)
    + KEYWORD_MATCH_SCORE * KeywordMatches(sourceBook.keywords, targetBook.keywords)

\* C10: an entry discovered at depth 2 scores exactly 0.5 x its base score S,
\* an entry discovered at depth 1 exactly S (scores count halves: the code's
\* score is recs[i].score / 2).
DepthPenaltyExact ==
  \A i \in DOMAIN recs :
    LET S == BaseScore(books[query.sourceBookId], recs[i].book)
    IN  /\ recs[i].depth = 2 => recs[i].score = S
        /\ recs[i].depth = 1 => recs[i].score = 2 * S

WitnessPenalizedWithBonuses ==
  /\ Queried
  /\ \E i \in DOMAIN recs : \E j \in DOMAIN recs :
       /\ recs[i].depth = 2
       /\ recs[i].score = 1 + SAME_GENRE_SCORE + SAME_AUTHOR_SCORE + KEYWORD_MATCH_SCORE
       /\ recs[j].depth = 1
       /\ recs[j].score < 0

\* C11: getRecommendations(id, limit) for an id that has no book in the book
\* map returns an empty list and changes neither the book map nor the graph,
\* also when the graph still holds a node and edges for the id.
UnknownSourceYieldsEmpty ==
  [][ (lastOp' = "getRecommendations" /\ query'.sourceBookId \notin DOMAIN books) =>
        /\ recs' = <<>>
        /\ books' = books
        /\ adjacencyList' = adjacencyList ]_vars

WitnessQueriedDeletedWithEdges ==
  /\ Queried
  /\ query.sourceBookId \notin DOMAIN books
  /\ Len(GetNeighbors(adjacencyList, query.sourceBookId)) >= 2
  /\ \E i \in DOMAIN adjacencyList[query.sourceBookId] :
       adjacencyList[query.sourceBookId][i].targetBookId \in DOMAIN books
  /\ recs = <<>>

\* The entry of the traversal's heap an entry of the result was made from.
ItemOfRecommendation(r) ==
  [ score |-> r.score,
    data  |-> [ book |-> r.book, reasons |-> r.relationshipTypes, depth |-> r.depth ] ]

\* C12: getRecommendations(source, limit) returns min(limit, number of scored
\* candidates) entries (limit is 5 by default) in non-increasing score
\* order, each a scored candidate, and no candidate left out scores strictly
\* more than an entry returned.
TopKOfCandidates ==
  (Queried /\ query.sourceBookId \in DOMAIN books) =>
    LET candidates == ScoredCandidates(adjacencyList, books, query.sourceBookId)
        taken      == BagOfSeq([ i \in DOMAIN recs |-> ItemOfRecommendation(recs[i]) ])
        leftOut    == BagOfSeq(candidates) (-) taken
    IN  /\ Len(recs) = Min(query.limit, Len(candidates))
        /\ NonIncreasing(recs)
        /\ taken \sqsubseteq BagOfSeq(candidates)
        /\ \A c \in BagToSet(leftOut) : \A i \in DOMAIN recs : c.score <= recs[i].score

\* Three candidates with three different scores, the first child of the heap's
\* root scoring less than the second, cut to one and returned in full.
WitnessTopOneOfThree ==
  /\ Queried
  /\ query.limit = 1
  /\ Len(recs) = 1
  /\ LET candidates == ScoredCandidates(adjacencyList, books, query.sourceBookId)
     IN  /\ Len(candidates) = 3
         /\ candidates[2].score < candidates[3].score
         /\ candidates[3].score < candidates[1].score

\* ------------------------------------------------------------------ store claims

\* C13: once deleteBook(X) has returned true, X is in no result of
\* getRecommendations, whatever the source and whatever createBook and
\* deleteBook calls came in between, and getRecommendations(X, limit) returns
\* an empty list.
DeletedNeverRecommended ==
  Queried =>
    /\ RecommendedIds \cap deleted = {}
    /\ query.sourceBookId \in deleted => recs = <<>>

\* The first seed book, which every state wires to the second one, was
\* deleted; a book created afterwards is recommended for the second one.
WitnessQueriedAfterDelete ==
  /\ Queried
  /\ "u1" \in deleted
  /\ query.sourceBookId = "u2"
  /\ \E i \in DOMAIN recs : recs[i].book.id = "u4"

\* What deleteBook(id) promises of a step.
DeleteBookPost(id) ==
  IF id \notin DOMAIN books
  THEN /\ reply' = << FALSE >>
       /\ books' = books
       /\ adjacencyList' = adjacencyList
  ELSE /\ reply' = << TRUE >>
       /\ DOMAIN books' = DOMAIN books \ {id}
       /\ \A b \in DOMAIN books' : books'[b] = books[b]
       /\ DOMAIN adjacencyList' = DOMAIN adjacencyList \ {id}
       /\ \A n \in DOMAIN adjacencyList' :
            /\ EntriesTo(adjacencyList', n, id) = <<>>
            /\ \A m \in StoreIds \ {id} :
                 EntriesTo(adjacencyList', n, m) = EntriesTo(adjacencyList, n, m)

\* C19: deleteBook(id) on an id without a book returns false and leaves the
\* map and the graph as they were; on an id with a book it returns true,
\* removes that book only, removes its node and every entry that targets it,
\* and leaves every other book and every other entry as it was.
DeleteBookRemovesOne ==
  [][ \A id \in StoreIds : deleteBook(id) => DeleteBookPost(id) ]_vars

WitnessDeletedWiredBook ==
  /\ lastOp = "deleteBook"
  /\ reply = << TRUE >>
  /\ deleted = { "u1" }
  /\ Cardinality(DOMAIN books) = 3
  /\ DirectedEntryCount(adjacencyList) = 2

\* The books of the scenario: the same genre, the same author and exactly
\* one keyword in common.
ScenarioPair(x, y) ==
  /\ x.genre = y.genre
  /\ ToLowerCase(x.author) = ToLowerCase(y.author)
  /\ Cardinality({ ToLowerCase(x.keywords[i]) : i \in DOMAIN x.keywords }
                   \cap { ToLowerCase(y.keywords[i]) : i \in DOMAIN y.keywords }) = 1

\* The state the scenario ends in: the catalog holds X and a later book Y.
ScenarioOf(x, y) ==
  /\ DOMAIN books = { x, y }
  /\ x # y
  /\ \E i \in DOMAIN UuidPool : \E j \in DOMAIN UuidPool :
       i < j /\ UuidPool[i] = x /\ UuidPool[j] = y
  /\ ScenarioPair(books[x], books[y])

\* C14: for X and Y of the same genre and author with exactly one keyword in
\* common and no prior edge, connectBook(Y, [X]) leaves one edge X-Y whose
\* weight is at least 9 = 3 + 5 + 1 before the bonus of 2, tagged at least
\* same_genre, same_author and similar_keywords; then getRecommendations(X, 1)
\* returns exactly one entry, Y at depth 1, with a score of at least 9
\* (scores count halves).
ScenarioConnectThenRecommend ==
  \A x \in StoreIds : \A y \in StoreIds :
    ScenarioOf(x, y) =>
      LET es == EntriesTo(adjacencyList, x, y)
      IN  /\ Len(es) = 1
          /\ Len(EntriesTo(adjacencyList, y, x)) = 1
          /\ es[1] = Mirror(EntriesTo(adjacencyList, y, x)[1], y)
          /\ es[1].weight
               - (IF "borrowed_together" \in Range(es[1].relationshipTypes)
                  THEN BORROWED_TOGETHER_SCORE ELSE 0)
                 >= SAME_GENRE_SCORE + SAME_AUTHOR_SCORE + KEYWORD_MATCH_SCORE
          /\ { "same_genre", "same_author", "similar_keywords" }
               \subseteq Range(es[1].relationshipTypes)
          /\ (Queried /\ query.sourceBookId = x /\ query.limit = 1) =>
               /\ Len(recs) = 1
               /\ recs[1].book = books[y]
               /\ recs[1].depth = 1
               /\ recs[1].score >= 2 * (SAME_GENRE_SCORE + SAME_AUTHOR_SCORE
                                          + KEYWORD_MATCH_SCORE)

WitnessScenarioQueried ==
  /\ ScenarioOf("u1", "u3")
  /\ Queried
  /\ query.sourceBookId = "u1"
  /\ query.limit = 1
  /\ Len(recs) = 1
  /\ adjacencyList["u1"][1].weight
       = SAME_GENRE_SCORE + SAME_AUTHOR_SCORE + KEYWORD_MATCH_SCORE

\* ------------------------------------------------------------------ connectBook claims

LoweredKeywords(book) == { ToLowerCase(book.keywords[i]) : i \in DOMAIN book.keywords }

\* Two books share the genre, the author (ignoring case) or a keyword
\* (ignoring case).
Related(a, b) ==
  \/ a.genre = b.genre
  \/ ToLowerCase(a.author) = ToLowerCase(b.author)
  \/ LoweredKeywords(a) \cap LoweredKeywords(b) # {}

\* C15: connectBook(N, existing) creates (or adds to) the edge between N and
\* E exactly for the books E of existing with E.id # N.id that share the
\* genre, the author or a keyword with N, whichever way the random choices
\* fall; the edge gains a weight > 0 on both sides, and N gets no entry that
\* targets N.
ConnectsExactlyRelated ==
  [][ lastOp' = "connectBook" =>
        LET n == query'.newBookId
        IN  /\ n \in DOMAIN adjacencyList'
            /\ EntriesTo(adjacencyList', n, n) = <<>>
            /\ \A e \in BookIds :
                 LET before == EntriesTo(adjacencyList, n, e)
                     after  == EntriesTo(adjacencyList', n, e)
                 IN  /\ after # before <=>
                          /\ e \in Range(query'.existingIds)
                          /\ e # n
                          /\ Related(books[n], books[e])
                     /\ after # before =>
                          /\ Len(after) = 1
                          /\ after[1].weight
                               > (IF before = <<>> THEN 0 ELSE before[1].weight)
                          /\ EntriesTo(adjacencyList', e, n) = << Mirror(after[1], n) >>
            /\ \A a \in BookIds \ {n} : \A b \in BookIds \ {n} :
                 EntriesTo(adjacencyList', a, b) = EntriesTo(adjacencyList, a, b) ]_vars

\* A call whose list holds the new book itself, a related and an unrelated
\* book, on a graph where the related pair has an edge already.
WitnessConnectedAmongUnrelated ==
  /\ lastOp = "connectBook"
  /\ query.newBookId = "b3"
  /\ Range(query.existingIds) = ConnectIds
  /\ Len(EntriesTo(adjacencyList, "b3", "b1")) = 1
  /\ EntriesTo(adjacencyList, "b3", "b1")[1].weight > 2 * BORROWED_TOGETHER_SCORE
  /\ EntriesTo(adjacencyList, "b3", "b2") = <<>>
  /\ "b2" \in DOMAIN adjacencyList

\* ------------------------------------------------------------------ server claims

\* The responses sent for GET /api/books/:id/recommendations when the id had
\* no book at the handler's lookup.
UnknownIdResponses ==
  { reply[i].response : i \in { j \in DOMAIN reply :
                                  /\ reply[j].route = "recommendations"
                                  /\ ~reply[j].known } }

\* C16, as claimed: a request to GET /api/books/:id/recommendations for an
\* identifier that is not in the catalog yields an empty list rather than an
\* error outcome.
RouteUnknownIdYieldsEmptyList ==
  \A response \in UnknownIdResponses :
    /\ response.status = 200
    /\ response.error = ""
    /\ response.body = << >>

\* C16, amended: a request to GET /api/books/:id/recommendations for an
\* identifier that has no book in the catalog when the handler looks it up
\* yields the not-found outcome, status 404 with the error "Book not found",
\* and no list.
RouteUnknownIdYieldsNotFound ==
  \A response \in UnknownIdResponses :
    response = Response(404, "Book not found", << >>)

\* The id of the path was deleted by an earlier request.
WitnessNotFoundAfterDelete ==
  /\ lastOp = "recommendationsGotBook"
  /\ UnknownIdResponses # {}
  /\ reply[1].id \in deleted
  /\ DOMAIN inflight = {}

\* C17: between any two steps of the handlers in flight the store is whole:
\* the graph's nodes are the catalog's ids, no entry targets an id without a
\* book, and every two books of the catalog are joined exactly when they are
\* related, so no handler sees a book that is only partly wired or an entry
\* for a book that was removed; the seed books are all there and wired
\* before the first handler runs.
StoreWholeAtEveryAwait ==
  /\ DOMAIN adjacencyList = DOMAIN books
  /\ \A a \in DOMAIN adjacencyList : \A i \in DOMAIN adjacencyList[a] :
       adjacencyList[a][i].targetBookId \in DOMAIN books
  /\ \A a \in DOMAIN books : \A b \in DOMAIN books \ {a} :
       Len(EntriesTo(adjacencyList, a, b))
         = (IF Related(books[a], books[b]) THEN 1 ELSE 0)
  /\ lastOp = "new" => DOMAIN books = SeedIds

\* A recommendations request that found its book is suspended while a delete
\* request removes that book and a create request adds another one.
WitnessDeleteAndCreateWhileSuspended ==
  /\ At("r1", "recommendations", "getBook")
  /\ inflight["r1"].known
  /\ inflight["r1"].id \in deleted
  /\ At("r2", "create", "createBook")
  /\ Len(GetNeighbors(adjacencyList, inflight["r2"].id)) >= 1

\* ------------------------------------------------------------------ graph read claims

\* C18: graph operations on unknown or repeated identifiers are no-ops:
\* getNeighbors(id) on an unknown id returns an empty sequence and hasNode(id)
\* returns false, neither creating the node; removeNode(id) on an unknown id
\* leaves the node set and every list as they were; addNode(id) on an
\* existing node leaves its list as it was.
UnknownOrRepeatedIsNoOp ==
  [][ \A id \in NodeIds :
        /\ (getNeighbors(id) /\ id \notin Nodes) =>
             /\ reply' = << << >> >>
             /\ adjacencyList' = adjacencyList
        /\ (hasNode(id) /\ id \notin Nodes) =>
             /\ reply' = << FALSE >>
             /\ adjacencyList' = adjacencyList
        /\ (removeNode(id) /\ id \notin Nodes) => adjacencyList' = adjacencyList
        /\ (addNode(id) /\ id \in Nodes) => adjacencyList' = adjacencyList ]_vars

\* addNode was called again on a node that has two edges.
WitnessAddNodeOnWiredNode ==
  /\ lastOp = "addNode"
  /\ Cardinality(Nodes) = 3
  /\ \E id \in Nodes : Len(adjacencyList[id]) = 2
  /\ DirectedEntryCount(adjacencyList) = 4

\* The unordered pairs joined by an edge.
JoinedPairs ==
  { p \in SUBSET Nodes :
      /\ Cardinality(p) = 2
      /\ \E a \in p : \E b \in p \ {a} : EntriesTo(adjacencyList, a, b) # <<>> }

\* C20: in every state reached by addNode, addEdge (source # target) and
\* removeNode, getEdgeCount() is a whole number, the number of unordered
\* pairs joined by an edge, and getNodeCount() is the number of nodes.
CountsAreExact ==
  LET count == GetEdgeCount(adjacencyList)
  IN  /\ count.num % count.den = 0
      /\ count.num = count.den * Cardinality(JoinedPairs)
      /\ GetNodeCount(adjacencyList) = Cardinality(Nodes)
      /\ GetNodeCount(adjacencyList)
           = Cardinality({ id \in NodeIds : HasNode(adjacencyList, id) })

\* Three edges, one of them merged to weight 0, after a node was removed and
\* added again.
WitnessCountedTriangle ==
  /\ lastOp = "addEdge"
  /\ Cardinality(JoinedPairs) = 3
  /\ GetEdgeCount(adjacencyList).num = 6
  /\ \E a \in Nodes : \E i \in DOMAIN adjacencyList[a] :
       adjacencyList[a][i].weight = 0

\* ------------------------------------------------------------------ scoring claims

\* The entry of the source's adjacency list that targets the book, if any.
DirectEdgeOf(sourceBookId, bookId) ==
  LET sourceEdges == GetNeighbors(adjacencyList, sourceBookId)
      idx         == FindEdgeIndex(sourceEdges, bookId)
  IN  IF idx = 0 THEN << >> ELSE << sourceEdges[idx] >>

\* What the claim has calculateScore passed for a candidate: the direct
\* edge's weight and types whatever the weight, 1 and no types without a
\* direct edge.
ScoredOnDirectEdge(r) ==
  LET direct == DirectEdgeOf(query.sourceBookId, r.book.id)
      scored == calculateScore(books[query.sourceBookId], r.book,
                               IF direct = << >> THEN 1 ELSE direct[1].weight,
                               IF direct = << >> THEN << >>
                               ELSE direct[1].relationshipTypes)
  IN  /\ r.score = FinalScore(scored.score, r.depth)
      /\ r.relationshipTypes = scored.reasons

\* C21: every candidate getRecommendations scores is scored on the weight and
\* the types of the direct edge from the source whenever there is one,
\* whatever its weight (0 and negative merged weights included); weight 1 and
\* no types are used only when the source has no direct edge to it.
DirectEdgeWeightUsedAsStored ==
  \A i \in DOMAIN recs : ScoredOnDirectEdge(recs[i])

\* The number of entries of a keyword list found in a set, each entry
\* counted.
RECURSIVE EntriesFound(_, _)
EntriesFound(keywords, set) ==
  IF keywords = << >> THEN 0
  ELSE (IF ToLowerCase(Head(keywords)) \in set THEN 1 ELSE 0)
         + EntriesFound(Tail(keywords), set)

\* C22: calculateScore(source, target, w, types) returns score = w + 3 if the
\* genres are equal as written + 5 if the authors are equal ignoring case + 1
\* per entry of target.keywords whose lower-cased form is among source's
\* lower-cased keywords (a repeated entry counts each time); its reasons are
\* those of the rules that fired and every edge type, each listed once, and
\* a rule's points are added also when its reason is among the edge types.
ScoreIsSumOfRules ==
  lastOp = "calculateScore" =>
    LET source     == query.sourceBook
        target     == query.targetBook
        sameGenre  == source.genre = target.genre
        sameAuthor == ToLowerCase(source.author) = ToLowerCase(target.author)
        found      == EntriesFound(target.keywords,
                                   { ToLowerCase(k) : k \in Range(source.keywords) })
        fired      == (IF sameGenre THEN { "same_genre" } ELSE {})
                        \cup (IF sameAuthor THEN { "same_author" } ELSE {})
                        \cup (IF found > 0 THEN { "similar_keywords" } ELSE {})
        result     == reply[1]
    IN  /\ result.score = query.edgeWeight
                            + (IF sameGenre THEN 3 ELSE 0)
                            + (IF sameAuthor THEN 5 ELSE 0)
                            + found
        /\ Range(result.reasons) = fired \cup Range(query.relationshipTypes)
        /\ \A i \in DOMAIN result.reasons : \A j \in DOMAIN result.reasons :
             result.reasons[i] = result.reasons[j] => i = j

\* The target repeats a keyword of the source in two spellings, the genres
\* differ by case only, and the edge types name a rule that fired.
WitnessScoredRepeatedKeyword ==
  /\ lastOp = "calculateScore"
  /\ query.sourceBook.id = "b3"
  /\ query.targetBook.id = "b5"
  /\ query.edgeWeight = -1
  /\ Len(query.relationshipTypes) = 3
  /\ reply[1].score = -1 + 5 + 3
  /\ reply[1].reasons = << "same_author", "similar_keywords", "borrowed_together" >>

\* ------------------------------------------------------------------ wiring claims

\* The weight one evaluation of the wiring rules gives for a new book and an
\* existing one: 3 for the same genre, 5 for the same author ignoring case,
\* 1 per keyword entry of the existing book found among the new book's
\* keywords, 2 when the edge is tagged borrowed_together.
SingleWiringWeight(newBook, existingBook, tagged) ==
  (IF newBook.genre = existingBook.genre THEN 3 ELSE 0)
    + (IF ToLowerCase(newBook.author) = ToLowerCase(existingBook.author)
       THEN 5 ELSE 0)
    + EntriesFound(existingBook.keywords,
                   { ToLowerCase(k) : k \in Range(newBook.keywords) })
    + (IF tagged THEN 2 ELSE 0)

\* C23: in every state of the store (after seeding and after any createBook
\* and deleteBook calls) the edge between two live books has the weight of
\* a single evaluation of the wiring rules, with either book taken as the
\* new one: 3 if same genre + 5 if same author ignoring case + 1 per
\* overlapping keyword + 2 if the edge is tagged borrowed_together.
EdgeWeightIsSingleWiring ==
  \A a \in DOMAIN books : \A i \in DOMAIN GetNeighbors(adjacencyList, a) :
    LET edge   == adjacencyList[a][i]
        b      == edge.targetBookId
        tagged == "borrowed_together" \in Range(edge.relationshipTypes)
    IN  b \in DOMAIN books =>
          edge.weight \in { SingleWiringWeight(books[a], books[b], tagged),
                            SingleWiringWeight(books[b], books[a], tagged) }

\* C24: MAX_POSSIBLE_SCORE (25) is the maximum possible score: in every state
\* of the store reachable by seeding, createBook and deleteBook no entry
\* getRecommendations returns has a score greater than 25 (scores count
\* halves).
ScoreAtMostMaxPossible ==
  \A i \in DOMAIN recs : recs[i].score <= 2 * MAX_POSSIBLE_SCORE

\* ------------------------------------------------------------------ traversal claims

\* No value is held twice by the sequence.
NoRepeat(seq) ==
  \A i \in DOMAIN seq : \A j \in DOMAIN seq : seq[i] = seq[j] => i = j

\* While a call runs: every id on the queue is in visited, visited holds the
\* source and the ids enqueued so far, and no id was enqueued twice.
VisitedAtEnqueue ==
  Walking =>
    /\ \A i \in DOMAIN bfsQueue : bfsQueue[i].id \in bfsVisited
    /\ bfsVisited = { query.sourceBookId } \cup Range(enqueued)
    /\ query.sourceBookId \notin Range(enqueued)
    /\ NoRepeat(enqueued)

\* The call that returned holds no book twice, and is the list the call
\* computed in one piece returns.
ReturnedOnce ==
  lastOp = "getRecommendations" =>
    /\ NoRepeat([ i \in DOMAIN recs |-> recs[i].book.id ])
    /\ recs = GetRecommendationsOf(adjacencyList, books,
                                   query.sourceBookId, query.limit)

\* C25: during one getRecommendations call every node id is marked visited
\* when it is enqueued and is enqueued at most once, also when several paths
\* lead to it; the traversal ends on every graph, cyclic ones included, and
\* no book is returned twice.
EnqueuedOnceAndTerminates ==
  /\ [](VisitedAtEnqueue /\ ReturnedOnce)
  /\ Walking ~> ~ Walking

\* A call on a cycle of three books is under way: the source's second
\* neighbour, which the first neighbour leads to as well, is on the queue
\* after the first neighbour was processed, and was enqueued once.
WitnessWalkingOnCycle ==
  /\ lastOp = "iterate"
  /\ DirectedEntryCount(adjacencyList) = 6
  /\ Len(GetNeighbors(adjacencyList, query.sourceBookId)) = 2
  /\ Len(enqueued) = 2
  /\ Len(heap) = 1
  /\ Len(bfsQueue) = 1
  /\ FindEdgeIndex(adjacencyList[enqueued[1]], bfsQueue[1].id) > 0

\* ------------------------------------------------------------------ query claims

\* The targets of a node's adjacency list.
TargetsOf(adj, bookId) ==
  { GetNeighbors(adj, bookId)[i].targetBookId : i \in DOMAIN GetNeighbors(adj, bookId) }

\* The books a graph and a book map put within two hops of a source: its
\* neighbours and the neighbours of those that have a book.
WithinTwoHops(adj, bookMap, sourceBookId) ==
  LET near == TargetsOf(adj, sourceBookId) \cap DOMAIN bookMap
      far  == UNION { TargetsOf(adj, a) : a \in near }
  IN  ((near \cup far) \cap DOMAIN bookMap) \ { sourceBookId }

\* C26: getRecommendations is a read-only query that is never cached: a call
\* leaves the catalog and every adjacency list as they were; a call that
\* follows a call with the same source and limit, nothing in between,
\* returns the same list; and whatever createBook and deleteBook did before
\* it, its list is that of the catalog and graph it is called on (books as
\* they are in the catalog now, within two hops in the graph now, all of
\* them up to the limit).
ReadOnlyAndNeverCached ==
  [][ lastOp' = "getRecommendations" =>
        /\ books' = books
        /\ adjacencyList' = adjacencyList
        /\ (lastOp = "getRecommendations" /\ query' = query) => recs' = recs
        /\ LET now == IF query'.sourceBookId \in DOMAIN books'
                      THEN WithinTwoHops(adjacencyList', books', query'.sourceBookId)
                      ELSE {}
           IN  /\ { recs'[i].book.id : i \in DOMAIN recs' } \subseteq now
               /\ Len(recs') = Min(query'.limit, Cardinality(now))
               /\ \A i \in DOMAIN recs' : recs'[i].book = books'[recs'[i].book.id]
    ]_vars

\* A seed book was deleted and books were created; the query for the other
\* seed book returns the book created last and nothing else.
WitnessQueriedAfterMutations ==
  /\ lastOp = "getRecommendations"
  /\ deleted = { "u1" }
  /\ issued = 4
  /\ query.sourceBookId = "u2"
  /\ Len(recs) = 1
  /\ recs[1].book.id = "u4"
  /\ "u3" \in DOMAIN books

\* ------------------------------------------------------------------ catalog and graph claims

\* The ids handed out so far whose book was not deleted.
LiveIds == { UuidPool[i] : i \in 1 .. issued } \ deleted

\* C27: after construction and after any completed createBook and deleteBook
\* calls the catalog's ids are the graph's nodes: every book has a node,
\* also a book without edges, and every node and every edge endpoint is a
\* book of the catalog (the books created and not deleted).
CatalogIdsAreGraphNodes ==
  /\ DOMAIN books = LiveIds
  /\ \A id \in StoreIds : HasNode(adjacencyList, id) <=> id \in DOMAIN books
  /\ GetNodeCount(adjacencyList) = Cardinality(DOMAIN books)
  /\ \A id \in DOMAIN books : TargetsOf(adjacencyList, id) \subseteq DOMAIN books \ { id }

\* A created book that shares nothing with the books left has a node and no
\* edge, next to two books joined by an edge, after a book was deleted.
WitnessLoneBookHasNode ==
  /\ lastOp = "createBook"
  /\ deleted # {}
  /\ LET id == reply[1].id
     IN  /\ HasNode(adjacencyList, id)
         /\ GetNeighbors(adjacencyList, id) = << >>
  /\ GetEdgeCount(adjacencyList).num = 2

\* C28: on a symmetric graph whose nodes all have a book, an entry has depth
\* 1 exactly when the source's list has an entry targeting its book, and
\* depth 2 exactly when its book is not adjacent to the source and is
\* adjacent to a neighbour of the source, so the depth is the hop distance;
\* a depth-2 entry has no direct edge from the source and is scored on
\* weight 1 and no edge types; short of the limit, every book within two
\* hops is returned.
DepthIsHopDistance ==
  (Queried /\ query.sourceBookId \in DOMAIN books
           /\ DOMAIN adjacencyList \subseteq DOMAIN books /\ GraphSymmetric) =>
    LET source == query.sourceBookId
        near   == TargetsOf(adjacencyList, source)
        far    == (UNION { TargetsOf(adjacencyList, a) : a \in near })
                    \ (near \cup { source })
    IN  /\ \A i \in DOMAIN recs :
             LET id     == recs[i].book.id
                 scored == calculateScore(books[source], recs[i].book, 1, << >>)
             IN  /\ recs[i].depth = 1 <=> id \in near
                 /\ recs[i].depth = 2 <=> id \in far
                 /\ recs[i].depth = 2 =>
                      /\ DirectEdgeOf(source, id) = << >>
                      /\ recs[i].score = FinalScore(scored.score, 2)
                      /\ recs[i].relationshipTypes = scored.reasons
        /\ Len(recs) < query.limit => RecommendedIds = near \cup far

\* Two neighbours of the source and a book two hops away are returned.
WitnessNearAndFar ==
  /\ Queried
  /\ DOMAIN books = BookIds
  /\ Len(recs) = 3
  /\ Cardinality({ i \in DOMAIN recs : recs[i].depth = 1 }) = 2
  /\ \E i \in DOMAIN recs :
       /\ recs[i].depth = 2
       /\ recs[i].relationshipTypes # << >>

\* Two books share the genre, the author (ignoring case) or a keyword
\* (ignoring case).
ShareSomething(a, b) ==
  \/ a.genre = b.genre
  \/ ToLowerCase(a.author) = ToLowerCase(b.author)
  \/ { ToLowerCase(k) : k \in Range(a.keywords) }
       \cap { ToLowerCase(k) : k \in Range(b.keywords) } # {}

\* C29: in every state of the store any two live books that share the genre,
\* the author or a keyword are joined by a direct edge; hence every depth-2
\* entry the store's getRecommendations returns has score 0.5 and no
\* reasons, every depth-1 entry has a score of at least 2, and the depth-1
\* entries come before the depth-2 entries (scores count halves).
RelatedBooksAreNeighbours ==
  /\ \A a \in DOMAIN books : \A b \in DOMAIN books \ { a } :
       ShareSomething(books[a], books[b]) => b \in TargetsOf(adjacencyList, a)
  /\ \A i \in DOMAIN recs :
       /\ recs[i].depth = 2 =>
            /\ recs[i].score = 1
            /\ recs[i].relationshipTypes = << >>
       /\ recs[i].depth = 1 => recs[i].score >= 2 * 2
       /\ \A j \in DOMAIN recs :
            (recs[i].depth = 1 /\ recs[j].depth = 2) => i < j

\* A query returned a neighbour of the source and, after it, a book two hops
\* away.
WitnessNeighbourThenStranger ==
  /\ Queried
  /\ Len(recs) >= 2
  /\ recs[1].depth = 1
  /\ recs[Len(recs)].depth = 2
  /\ recs[Len(recs)].score = 1

\* ------------------------------------------------------------------ self-edge claims

\* The nodes whose list holds an entry that targets the node itself.
SelfJoined(adj) == { a \in DOMAIN adj : EntriesTo(adj, a, a) # << >> }

\* C30: addEdge accepts a self-edge: addEdge(A, A, w, t) on a node A whose
\* list has no entry for A leaves exactly one entry targeting A in A's list,
\* with weight 2w (the reverse step merges into the entry the forward step
\* pushed), not two mirrored entries; getEdgeCount() counts it as one half,
\* so that the count is a whole number only while the self-edges are even
\* in number.
SelfEdgeIsOneEntry ==
  [][ \A id \in SelfIds : \A w \in ApiWeights : \A ty \in ApiTypeArrays :
        (addEdge(id, id, w, ty) /\ id \notin SelfJoined(adjacencyList)) =>
          /\ EntriesTo(adjacencyList', id, id)
               = << [ targetBookId |-> id, weight |-> 2 * w,
                      relationshipTypes |-> ty ] >>
          /\ Len(adjacencyList'[id]) = Len(GetNeighbors(adjacencyList, id)) + 1
          /\ GetEdgeCount(adjacencyList').num = GetEdgeCount(adjacencyList).num + 1
          /\ GetEdgeCount(adjacencyList').den = 2
          /\ (Cardinality(SelfJoined(adjacencyList')) % 2 = 1) <=>
               (GetEdgeCount(adjacencyList').num % GetEdgeCount(adjacencyList').den # 0)
    ]_vars

\* A node joined to another node and to itself: two entries in its list,
\* three entries in all, an edge count of one and a half.
WitnessSelfEdgeCountedHalf ==
  /\ lastOp = "addEdge"
  /\ Cardinality(SelfJoined(adjacencyList)) = 1
  /\ \E a \in SelfJoined(adjacencyList) :
       /\ Len(adjacencyList[a]) = 2
       /\ adjacencyList[a][2].targetBookId = a
       /\ adjacencyList[a][2].weight \in { -2, 2 }
  /\ GetEdgeCount(adjacencyList) = [ num |-> 3, den |-> 2 ]

====
